---- MODULE Spec2Model ----
(***************************************************************************)
(* Verification model of scl-emulator: the tree-walking interpreter        *)
(* (src/emulator/interpreter.ts), the PLC memory facade                    *)
(* (src/plc/state/plcState.ts), the typed memory areas and the optimized   *)
(* data-block symbol store (src/plc/state/optimizedDb.ts).                 *)
(*                                                                         *)
(* Two specifications share one state:                                     *)
(*   Spec        one scan of executeProgram, small-step                    *)
(*   FacadeSpec  sequences of facade calls (typed writes, reads,           *)
(*               subscriptions) against one PlcStateImpl                   *)
(***************************************************************************)
EXTENDS Integers, Sequences, FiniteSets, TLC

(***************************************************************************)
(* Bounds of the model.                                                    *)
(***************************************************************************)
\* largest maxLoopIterations option explored
MaxLoopCap == 7
\* largest number of facade calls in one behaviour of FacadeSpec
MaxCalls == 3

(***************************************************************************)
(* Integers.  A JavaScript integer (number or bigint) is kept as NumLen    *)
(* bytes of two's complement, least significant byte first, so that the    *)
(* 32- and 64-bit types keep their width and the byte images written to    *)
(* memory are the low bytes of the value.                                  *)
(***************************************************************************)
NumLen == 9
Byte == 0..255

Pow256(i) == IF i = 0 THEN 1 ELSE IF i = 1 THEN 256 ELSE IF i = 2 THEN 65536 ELSE 16777216

SignByte(b) == IF b >= 128 THEN 255 ELSE 0

\* the number n, |n| < 2^31
FromInt(n) ==
  [i \in 1..NumLen |-> IF i <= 4 THEN (n \div Pow256(i - 1)) % 256
                       ELSE IF n < 0 THEN 255 ELSE 0]

\* 2^(8k) * b shifted into byte k+1: the number b * 256^k
ByteAt(k, b) == [i \in 1..NumLen |-> IF i = k + 1 THEN b ELSE 0]

\* v lies in -2^(8w-1) .. 2^(8w-1)-1
FitsSigned(v, w) == \A i \in (w + 1)..NumLen : v[i] = SignByte(v[w])
\* v lies in 0 .. 2^(8w)-1
FitsUnsigned(v, w) == \A i \in (w + 1)..NumLen : v[i] = 0

\* the integer a Num stands for, when it fits 32 signed bits
ToInt(v) ==
  v[1] + 256 * v[2] + 65536 * v[3]
    + 16777216 * (IF v[4] >= 128 THEN v[4] - 256 ELSE v[4])

Zero == FromInt(0)

(***************************************************************************)
(* Data types (SclDataType / PlcValueType) and PlcErrorCode.               *)
(***************************************************************************)
IntegerTypes == {"BYTE", "SINT", "WORD", "INT", "DWORD", "DINT", "LINT", "TIME", "DATE", "TOD"}
ScalarTypes == IntegerTypes \cup {"BOOL"}

InvalidAddress == "invalid_address"
OutOfRange == "out_of_range"
AlignmentError == "alignment_error"
TypeMismatch == "type_mismatch"
UnknownFbInstance == "unknown_fb_instance"
UnknownSymbol == "unknown_symbol"
UninitializedArea == "uninitialized_area"


(***************************************************************************)
(* Optimized data-block symbol store.  The symbol table is the one that    *)
(* OptimizedDbStore builds from the two fixtures of the test suite:        *)
(* instance ProgramState (emulator fixture) and instance IntegrationTests  *)
(* (one scalar per integer-like type).                                     *)
(***************************************************************************)
Instances == {"ProgramState", "IntegrationTests"}

SymbolTable ==
  [ toggleFlag |-> [instance |-> "ProgramState", dataType |-> "BOOL"],
    count      |-> [instance |-> "ProgramState", dataType |-> "INT"],
    index      |-> [instance |-> "ProgramState", dataType |-> "INT"],
    total      |-> [instance |-> "ProgramState", dataType |-> "INT"],
    idx        |-> [instance |-> "ProgramState", dataType |-> "INT"],
    hits       |-> [instance |-> "ProgramState", dataType |-> "INT"],
    flag       |-> [instance |-> "ProgramState", dataType |-> "BOOL"],
    boolValue  |-> [instance |-> "IntegrationTests", dataType |-> "BOOL"],
    byteValue  |-> [instance |-> "IntegrationTests", dataType |-> "BYTE"],
    sintValue  |-> [instance |-> "IntegrationTests", dataType |-> "SINT"],
    wordValue  |-> [instance |-> "IntegrationTests", dataType |-> "WORD"],
    intValue   |-> [instance |-> "IntegrationTests", dataType |-> "INT"],
    dwordValue |-> [instance |-> "IntegrationTests", dataType |-> "DWORD"],
    dintValue  |-> [instance |-> "IntegrationTests", dataType |-> "DINT"],
    lintValue  |-> [instance |-> "IntegrationTests", dataType |-> "LINT"],
    timeValue  |-> [instance |-> "IntegrationTests", dataType |-> "TIME"],
    dateValue  |-> [instance |-> "IntegrationTests", dataType |-> "DATE"],
    todValue   |-> [instance |-> "IntegrationTests", dataType |-> "TOD"] ]

SymbolNames == DOMAIN SymbolTable

\* defaultForType / the fixtures' defaultValue
defaultForType(type) == IF type = "BOOL" THEN FALSE ELSE IF type = "STRING" THEN <<>> ELSE Zero

\* the result records PlcResult: ok(value) and fail(createError(code))
Ok(v) == [ok |-> TRUE, code |-> "", value |-> v]
Fail(c) == [ok |-> FALSE, code |-> c, value |-> Zero]

\* coerceInteger's range test, min and max being the bounds of a w-byte type
CoerceIntegerInRange(v, w, signed) ==
  IF signed THEN FitsSigned(v, w) ELSE FitsUnsigned(v, w)

\* coerceScalarValue for the BOOL and integer types; rawValue is a boolean
\* for BOOL and an integer otherwise (the facade has checked the JS type)
coerceScalarValue(type, value) ==
  CASE type = "BOOL"  -> Ok(value)
    [] type = "BYTE"  -> IF CoerceIntegerInRange(value, 1, FALSE) THEN Ok(value) ELSE Fail(OutOfRange)
    [] type = "WORD"  -> IF CoerceIntegerInRange(value, 2, FALSE) THEN Ok(value) ELSE Fail(OutOfRange)
    [] type = "DWORD" -> IF CoerceIntegerInRange(value, 4, FALSE) THEN Ok(value) ELSE Fail(OutOfRange)
    [] type = "SINT"  -> IF CoerceIntegerInRange(value, 1, TRUE) THEN Ok(value) ELSE Fail(OutOfRange)
    [] type = "INT"   -> IF CoerceIntegerInRange(value, 2, TRUE) THEN Ok(value) ELSE Fail(OutOfRange)
    [] type = "DINT"  -> IF CoerceIntegerInRange(value, 4, TRUE) THEN Ok(value) ELSE Fail(OutOfRange)
    [] type = "LINT"  -> Ok(value)
    [] type \in {"TIME", "TOD"} ->
         IF CoerceIntegerInRange(value, 4, FALSE) THEN Ok(value) ELSE Fail(OutOfRange)
    [] type = "DATE"  -> IF CoerceIntegerInRange(value, 2, FALSE) THEN Ok(value) ELSE Fail(OutOfRange)

(***************************************************************************)
(* Addresses.  An address string is kept in parsed-apart form:             *)
(*   kind "bit"    <area><byteOffset>.<bitOffset>      e.g. M0.3           *)
(*   kind "byte"   <area><size><byteOffset>            e.g. MW2, MB1, M1   *)
(*   kind "symbol" <instance>.<name>                   e.g. Pump.speed     *)
(* bitOffset is the number written after the dot; 10 stands for any        *)
(* offset of two digits, which BIT_PATTERN does not match.                 *)
(***************************************************************************)
BitAddr(area, byte, bit) ==
  [kind |-> "bit", area |-> area, size |-> "", byteOffset |-> byte, bitOffset |-> bit,
   instance |-> "", name |-> ""]
ByteAddr(area, size, byte) ==
  [kind |-> "byte", area |-> area, size |-> size, byteOffset |-> byte, bitOffset |-> 0,
   instance |-> "", name |-> ""]
SymbolAddr(instance, name) ==
  [kind |-> "symbol", area |-> "", size |-> "", byteOffset |-> 0, bitOffset |-> 0,
   instance |-> instance, name |-> name]

ParseOk(area, byteOffset, bitOffset, notation) ==
  [ok |-> TRUE, code |-> "", area |-> area, byteOffset |-> byteOffset,
   bitOffset |-> bitOffset, notation |-> notation]
ParseFail(c) ==
  [ok |-> FALSE, code |-> c, area |-> "", byteOffset |-> 0, bitOffset |-> 0, notation |-> ""]

\* BIT_PATTERN /^([IQM])(\d+)\.(\d)$/ : exactly one digit after the dot
MatchesBitPattern(a) == a.kind = "bit" /\ a.bitOffset \in 0..9
MatchesBytePattern(a) == a.kind = "byte"

parseCore(a) ==
  IF MatchesBitPattern(a)
  THEN IF a.bitOffset < 0 \/ a.bitOffset > 7
       THEN ParseFail(InvalidAddress)
       ELSE ParseOk(a.area, a.byteOffset, a.bitOffset, "BIT")
  ELSE IF MatchesBytePattern(a)
  THEN ParseOk(a.area, a.byteOffset, 0,
               IF a.size = "W" THEN "WORD" ELSE IF a.size = "D" THEN "DWORD" ELSE "BYTE")
  ELSE ParseFail(InvalidAddress)

\* parseBitAddress after parseCore
BitAddressOf(parsed) ==
  IF ~parsed.ok THEN parsed
  ELSE IF parsed.notation # "BIT" THEN ParseFail(TypeMismatch)
  ELSE parsed

parseBitAddress(a) == CHOOSE r \in {BitAddressOf(parsed) : parsed \in {parseCore(a)}} : TRUE

notationSizes(notation) ==
  CASE notation = "BIT" -> 0 [] notation = "BYTE" -> 1 [] notation = "WORD" -> 2 [] notation = "DWORD" -> 4

\* a parseByteAddress without the alignment rule: the offset is left to the
\* area's accessor
ByteAddressUnaligned(parsed, byteLength, alignment) ==
  IF ~parsed.ok THEN parsed
  ELSE IF parsed.notation = "BIT" /\ parsed.bitOffset # 0 THEN ParseFail(AlignmentError)
  ELSE IF parsed.notation # "BIT" /\ notationSizes(parsed.notation) # 0
            /\ notationSizes(parsed.notation) # byteLength THEN ParseFail(TypeMismatch)
  ELSE parsed

\* alignment 0 stands for "no alignment requirement" (undefined)
ByteAddressOf(parsed, byteLength, alignment) ==
  IF ~parsed.ok THEN parsed
  ELSE IF parsed.notation = "BIT" /\ parsed.bitOffset # 0 THEN ParseFail(AlignmentError)
  ELSE IF parsed.notation # "BIT" /\ notationSizes(parsed.notation) # 0
            /\ notationSizes(parsed.notation) # byteLength THEN ParseFail(TypeMismatch)
  ELSE IF alignment # 0 /\ parsed.byteOffset % alignment # 0 THEN ParseFail(AlignmentError)
  ELSE parsed

parseByteAddress(a, byteLength, alignment) ==
  CHOOSE r \in {ByteAddressOf(parsed, byteLength, alignment) : parsed \in {parseCore(a)}} : TRUE

\* ABSOLUTE_AREA_PATTERN /^(?:[IQM](?:[BWD])?\d+(?:\.\d)?)$/i
MatchesAbsoluteAreaPattern(a) ==
  \/ a.kind = "byte"
  \/ a.kind = "bit" /\ a.bitOffset \in 0..9

\* an address that is blank has kind "empty", one that starts with DB (in
\* either case) has kind "db"
shouldAttemptSymbolFallback(a, code) ==
  /\ code = InvalidAddress
  /\ a.kind # "empty"
  /\ a.kind # "db"
  /\ ~MatchesAbsoluteAreaPattern(a)


(***************************************************************************)
(* State.                                                                  *)
(***************************************************************************)
VARIABLES
  mem,             \* PlcStateImpl.inputs/outputs/flags: area -> (offset -> byte)
  dbValues,        \* OptimizedDbStore.values: symbol -> stored value
  stateListeners,  \* PlcStateImpl.stateListeners, in insertion order
  areaListeners,   \* PlcStateImpl.areaListeners: region key -> listeners, in insertion order
  lastCall,        \* the facade call made last and what it returned
  callCount,       \* number of facade calls made so far (FacadeSpec)
  program,         \* the IrProgram being executed
  maxLoopIterations, \* Interpreter.maxLoopIterations
  stack,           \* the interpreter's activation records, innermost last
  control,         \* the LoopControl a finished callee handed to the top record
  status,          \* "idle", "running", "returned" or "failed"
  failure,         \* which SclEmulatorRuntimeError ended the scan
  bodyRuns,        \* loop bodies started in this scan, over all loops
  config,          \* the OptimizedDbConfiguration handed to new OptimizedDbStore (StoreSpec)
  store,           \* the OptimizedDbStore built from it, or the error its constructor threw
  trace,           \* Interpreter.traceEnabled and traceEntries, and the writes in the order made
  handles          \* the listener Sets behind areaListeners and the unsubscribe closures handed out

facadeVars == <<mem, dbValues, stateListeners, areaListeners, lastCall, callCount>>
interpVars == <<program, maxLoopIterations, stack, control, status, failure, bodyRuns, trace>>
storeVars == <<config, store>>
vars == <<mem, dbValues, stateListeners, areaListeners, lastCall, callCount,
          program, maxLoopIterations, stack, control, status, failure, bodyRuns, config, store,
          trace, handles>>

(***************************************************************************)
(* Typed memory areas (BitArea, WordArea).  Each configured area is one    *)
(* fixed-size byte buffer; the outputs area is left unconfigured.          *)
(***************************************************************************)
InputsSize == 4
FlagsSize == 16
Areas == {"I", "Q", "M"}
ConfiguredAreas == {"I", "M"}
AreaSize(area) == IF area = "I" THEN InputsSize ELSE FlagsSize

\* BitArea.byteLength
byteLength(m, area) == AreaSize(area)

\* BitArea.assertRange: TRUE when the access is inside the buffer
assertRange(m, area, byteOffset, length) ==
  byteOffset >= 0 /\ length >= 0 /\ byteOffset + length <= byteLength(m, area)

\* WordArea.assertAlignment
assertAlignment(m, area, byteOffset, alignment) ==
  byteOffset % alignment = 0 /\ assertRange(m, area, byteOffset, alignment)

\* BitArea.readBytes (the caller has asserted the range)
readBytes(m, area, byteOffset, length) ==
  [i \in 1..length |-> m[area][byteOffset + i - 1]]

\* a writeBytes into a buffer that is reallocated one byte longer
writeBytesReallocating(m, area, byteOffset, source) ==
  [m EXCEPT ![area] =
     [k \in 0..byteLength(m, area) |->
        IF k >= byteOffset /\ k < byteOffset + Len(source)
        THEN source[k - byteOffset + 1]
        ELSE IF k \in DOMAIN m[area] THEN m[area][k] ELSE 0]]

\* BitArea.writeBytes / DataView.set*: store a byte sequence at byteOffset
writeBytes(m, area, byteOffset, source) ==
  [m EXCEPT ![area] =
     [k \in DOMAIN m[area] |->
        IF k >= byteOffset /\ k < byteOffset + Len(source)
        THEN source[k - byteOffset + 1] ELSE m[area][k]]]

Pow2(b) == IF b = 0 THEN 1 ELSE IF b = 1 THEN 2 ELSE IF b = 2 THEN 4 ELSE IF b = 3 THEN 8
           ELSE IF b = 4 THEN 16 ELSE IF b = 5 THEN 32 ELSE IF b = 6 THEN 64 ELSE 128

BitIsSet(byte, bitOffset) == (byte \div Pow2(bitOffset)) % 2 = 1

\* BitArea.readBit
readBit(m, area, byteOffset, bitOffset) == BitIsSet(m[area][byteOffset], bitOffset)

\* a writeBit that stores the whole byte: every bit set, or none
writeBitWholeByte(m, area, byteOffset, bitOffset, value) ==
  [m EXCEPT ![area][byteOffset] = IF value THEN 255 ELSE 0]

\* BitArea.writeBit: buffer[byteOffset] |= mask, or &= ~mask
writeBit(m, area, byteOffset, bitOffset, value) ==
  LET old == m[area][byteOffset]
      new == IF value
             THEN (IF BitIsSet(old, bitOffset) THEN old ELSE old + Pow2(bitOffset))
             ELSE (IF BitIsSet(old, bitOffset) THEN old - Pow2(bitOffset) ELSE old)
  IN [m EXCEPT ![area][byteOffset] = new]

\* LITTLE_ENDIAN = true: the byte at the low address is the least significant.
\* The image DataView.setUintN/setIntN/setBigInt64 stores for a value is its
\* low w bytes (ToUintN / ToIntN wrap modulo 2^(8w)).
EncodeBytes(value, w) == [i \in 1..w |-> value[i]]

\* DataView.getUintN: zero-extended
DecodeUnsigned(bytes, w) == [i \in 1..NumLen |-> IF i <= w THEN bytes[i] ELSE 0]
\* DataView.getIntN / getBigInt64: sign-extended
DecodeSigned(bytes, w) == [i \in 1..NumLen |-> IF i <= w THEN bytes[i] ELSE SignByte(bytes[w])]

(***************************************************************************)
(* Per-type tables of the facade's read*/write* methods.                   *)
(***************************************************************************)
\* byteLength argument of parseByteAddress / writeNumeric
TypeByteLength(type) ==
  CASE type \in {"BOOL", "BYTE", "SINT"} -> 1
    [] type \in {"WORD", "INT", "DATE"} -> 2
    [] type \in {"DWORD", "DINT", "TIME", "TOD"} -> 4
    [] type = "LINT" -> 8

\* alignment argument of parseByteAddress / writeNumeric (0: undefined)
TypeAlignment(type) ==
  IF type \in {"BOOL", "BYTE", "SINT"} THEN 0 ELSE TypeByteLength(type)

\* the accessor is the signed one (readInt8/16/32, readBigInt64)
TypeSigned(type) == type \in {"SINT", "INT", "DINT", "LINT", "TIME"}

\* the guard at the head of writeByte, writeSInt, ..., writeTod: the value
\* passes when it is an integer inside the method's range (writeLint takes
\* every bigint, writeBool every boolean)
FacadeAccepts(type, value) ==
  CASE type = "BOOL"  -> TRUE
    [] type = "BYTE"  -> FitsUnsigned(value, 1)
    [] type = "SINT"  -> FitsSigned(value, 1)
    [] type = "WORD"  -> FitsUnsigned(value, 2)
    [] type = "INT"   -> FitsSigned(value, 2)
    [] type = "DWORD" -> FitsUnsigned(value, 4)
    [] type = "DINT"  -> FitsSigned(value, 4)
    [] type = "LINT"  -> TRUE
    [] type = "TIME"  -> FitsSigned(value, 4)
    [] type = "DATE"  -> FitsUnsigned(value, 2)
    [] type = "TOD"   -> FitsUnsigned(value, 4)


(***************************************************************************)
(* Change listeners.  A listener is a callback of the embedder; what it    *)
(* does when called is fixed by its name: return, throw an Error, or       *)
(* throw a RangeError.                                                     *)
(***************************************************************************)
Listeners == {"watch", "audit", "broken", "strict"}

ListenerThrows(l) ==
  IF l = "broken" THEN "Error" ELSE IF l = "strict" THEN "RangeError" ELSE "none"

DbRegion(instancePath) == [area |-> "DB", instancePath |-> instancePath]
AreaRegion(area) == [area |-> area, instancePath |-> ""]

regionKey(region) ==
  IF region.area = "DB" THEN "DB:" \o region.instancePath ELSE region.area

Regions == {AreaRegion(a) : a \in Areas} \cup {DbRegion(i) : i \in Instances}
RegionKeys == {regionKey(r) : r \in Regions}

\* the listeners of a region, Map.get(key) with undefined read as none
ScopedListeners(al, region) == al[regionKey(region)]

\* what a listener finds in memory when it looks at the entries of the diff
\* it is handed: TRUE when every entry's location holds the entry's "current"
SeesCurrent(region, diff, m, db) ==
  IF region.area = "DB"
  THEN \A i \in 1..Len(diff) : db[diff[i].path] = diff[i].current
  ELSE \A i \in 1..Len(diff) : m[region.area][diff[i].offset] = diff[i].current

\* a dispatchChange that goes through the state-wide listeners only
StateListenersOnly(sl, al, region) ==
  [i \in 1..Len(sl) |-> [listener |-> sl[i], scope |-> "state"]]

\* the listeners dispatchChange goes through, state-wide ones first
DispatchOrder(sl, al, region) ==
  [i \in 1..(Len(sl) + Len(ScopedListeners(al, region))) |->
     IF i <= Len(sl)
     THEN [listener |-> sl[i], scope |-> "state"]
     ELSE [listener |-> ScopedListeners(al, region)[i - Len(sl)], scope |-> "area"]]

\* index of the first listener in the order that throws, 0 when none does
FirstThrowing(order) ==
  IF \E i \in 1..Len(order) : ListenerThrows(order[i].listener) # "none"
  THEN CHOOSE i \in 1..Len(order) :
         /\ ListenerThrows(order[i].listener) # "none"
         /\ \A j \in 1..(i - 1) : ListenerThrows(order[j].listener) = "none"
  ELSE 0

\* dispatchChange: call every state-wide listener, then every listener of
\* the region, in order; a throwing listener ends the loop.  m and db are
\* the memory at the time of the call.  The result lists the calls made
\* and the error that escaped ("none" when every listener returned).
dispatchChange(sl, al, region, diff, m, db) ==
  LET order == DispatchOrder(sl, al, region)
      stop == FirstThrowing(order)
      made == IF stop = 0 THEN Len(order) ELSE stop
  IN [calls |-> [i \in 1..made |->
                   [listener |-> order[i].listener, scope |-> order[i].scope,
                    region |-> regionKey(region), diff |-> diff,
                    seesCurrent |-> SeesCurrent(region, diff, m, db)]],
      thrown |-> IF stop = 0 THEN "none" ELSE ListenerThrows(order[stop].listener)]

(***************************************************************************)
(* Results of a facade call: it returns ok, returns a failure with a code, *)
(* or an exception escapes it.                                             *)
(***************************************************************************)
Returned(ok, code, value, m, db, made) ==
  [ok |-> ok, code |-> code, thrown |-> "none", value |-> value,
   mem |-> m, db |-> db, calls |-> made]
Thrown(error, m, db, made) ==
  [ok |-> FALSE, code |-> "", thrown |-> error, value |-> Zero,
   mem |-> m, db |-> db, calls |-> made]

(***************************************************************************)
(* OptimizedDbStore.resolveDescriptor / describe / read / write.           *)
(***************************************************************************)
\* resolveDescriptor and describeMissingSymbol: the descriptor of a path,
\* or unknown_fb_instance / unknown_symbol
resolveDescriptor(a) ==
  IF a.kind = "symbol" /\ a.name \in SymbolNames /\ SymbolTable[a.name].instance = a.instance
  THEN Ok(a.name)
  ELSE IF a.kind = "symbol" /\ a.instance \in Instances
  THEN Fail(UnknownSymbol)
  ELSE Fail(UnknownFbInstance)

\* describe after resolveDescriptor: the descriptor's type must be the expected one
DescribeResolved(descriptorResult, expectedType) ==
  IF ~descriptorResult.ok THEN descriptorResult
  ELSE IF SymbolTable[descriptorResult.value].dataType # expectedType THEN Fail(TypeMismatch)
  ELSE descriptorResult

describe(a, expectedType) ==
  CHOOSE r \in {DescribeResolved(descriptorResult, expectedType) :
                  descriptorResult \in {resolveDescriptor(a)}} : TRUE

valueEquals(a, b) == a = b

\* a SymbolWriteResult (or the failure returned in its place):
\* [ok, code, name, previous, current, changed, db]
NoSymbolWrite(code, db) ==
  [ok |-> FALSE, code |-> code, name |-> "", previous |-> Zero,
   current |-> Zero, changed |-> FALSE, db |-> db]

\* OptimizedDbStore.write from the comparison on: the slot is set only when
\* the coerced value differs from the stored one
StoreCoerced(db, name, previous, current) ==
  [ok |-> TRUE, code |-> "", name |-> name, previous |-> previous,
   current |-> current, changed |-> ~valueEquals(previous, current),
   db |-> IF ~valueEquals(previous, current) THEN [db EXCEPT ![name] = current] ELSE db]

\* OptimizedDbStore.write after describe and coerceScalarValue
StoreDescribed(db, descriptorResult, expectedType, rawValue) ==
  IF ~descriptorResult.ok THEN NoSymbolWrite(descriptorResult.code, db)
  ELSE IF ~coerceScalarValue(expectedType, rawValue).ok
  THEN NoSymbolWrite(coerceScalarValue(expectedType, rawValue).code, db)
  ELSE CHOOSE r \in {StoreCoerced(db, descriptorResult.value, db[descriptorResult.value], current) :
                     current \in {coerceScalarValue(expectedType, rawValue).value}} : TRUE

\* OptimizedDbStore.write (the descriptor's data type is the expected one
\* whenever describe succeeds)
storeWrite(db, a, expectedType, rawValue) ==
  CHOOSE r \in {StoreDescribed(db, descriptorResult, expectedType, rawValue) :
                  descriptorResult \in {describe(a, expectedType)}} : TRUE

\* OptimizedDbStore.read after describe
ReadDescribed(db, descriptorResult) ==
  IF ~descriptorResult.ok THEN descriptorResult ELSE Ok(db[descriptorResult.value])

\* OptimizedDbStore.read
storeRead(db, a, expectedType) ==
  CHOOSE r \in {ReadDescribed(db, descriptorResult) :
                  descriptorResult \in {describe(a, expectedType)}} : TRUE


(***************************************************************************)
(* PlcStateImpl: the write path.                                           *)
(***************************************************************************)
RECURSIVE DiffFrom(_, _, _, _)
DiffFrom(baseOffset, before, after, index) ==
  IF index > Len(before) THEN <<>>
  ELSE (IF before[index] # after[index]
        THEN <<[offset |-> baseOffset + index - 1, previous |-> before[index],
                current |-> after[index]]>>
        ELSE <<>>) \o DiffFrom(baseOffset, before, after, index + 1)

\* computeDiffEntries, for two byte ranges of equal length
computeDiffEntries(baseOffset, before, after) == DiffFrom(baseOffset, before, after, 1)

\* handleRangeError: a RangeError caught in readWith/writeWith becomes a
\* returned out_of_range failure, every other error is thrown again
handleRangeError(error, m, db, made) ==
  IF error = "RangeError" THEN Returned(FALSE, OutOfRange, Zero, m, db, made)
  ELSE Thrown(error, m, db, made)

\* what a write returns once dispatchChange has been called: inside
\* writeWith's try block an escaping error goes through handleRangeError
AfterDispatch(d, m, db) ==
  IF d.thrown # "none" THEN handleRangeError(d.thrown, m, db, d.calls)
  ELSE Returned(TRUE, "", Zero, m, db, d.calls)

\* what writeSymbol returns once dispatchSymbolChange has been called: there
\* is no try block, an escaping error leaves writeSymbol
AfterSymbolDispatch(d, m, db) ==
  IF d.thrown # "none" THEN Thrown(d.thrown, m, db, d.calls)
  ELSE Returned(TRUE, "", Zero, m, db, d.calls)

\* dispatchSymbolChange
dispatchSymbolChange(sl, al, write, m) ==
  dispatchChange(sl, al, DbRegion(SymbolTable[write.name].instance),
                 <<[path |-> write.name, previous |-> write.previous, current |-> write.current]>>,
                 m, write.db)

\* writeSymbol after store.write
SymbolWritten(sl, al, m, db, result) ==
  IF ~result.ok THEN Returned(FALSE, result.code, Zero, m, db, <<>>)
  ELSE IF result.changed
  THEN CHOOSE r \in {AfterSymbolDispatch(d, m, result.db) :
                     d \in {dispatchSymbolChange(sl, al, result, m)}} : TRUE
  ELSE Returned(TRUE, "", Zero, m, result.db, <<>>)

\* writeSymbol
writeSymbol(sl, al, m, db, a, dataType, rawValue) ==
  CHOOSE r \in {SymbolWritten(sl, al, m, db, result) :
                  result \in {storeWrite(db, a, dataType, rawValue)}} : TRUE

\* the mutator closure handed to writeWith by writeBool ... writeTod: the
\* memory after area.writeBit / writeUInt8 / ... / writeBigInt64
mutator(m, type, descriptor, value) ==
  IF type = "BOOL"
  THEN writeBit(m, descriptor.area, descriptor.byteOffset, descriptor.bitOffset, value)
  ELSE writeBytes(m, descriptor.area, descriptor.byteOffset,
                  EncodeBytes(value, TypeByteLength(type)))

\* the assertions a WordArea/BitArea accessor makes before it reads or stores
accessorAsserts(m, type, descriptor) ==
  IF type \in {"BOOL", "BYTE", "SINT"}
  THEN assertRange(m, descriptor.area, descriptor.byteOffset, 1)
  ELSE assertAlignment(m, descriptor.area, descriptor.byteOffset, TypeByteLength(type))

\* the parser closure of writeBoolInternal / writeNumeric / read*
parser(a, type) ==
  IF type = "BOOL" THEN parseBitAddress(a)
  ELSE parseByteAddress(a, TypeByteLength(type), TypeAlignment(type))

\* a writeWith that tells the listeners of every write, changed or not
MutatedAlwaysDispatches(sl, al, m2, db, area, diff) ==
  CHOOSE r \in {AfterDispatch(d, m2, db) :
                d \in {dispatchChange(sl, al, AreaRegion(area), diff, m2, db)}} : TRUE

\* writeWith after the mutator ran: m2 is the memory it left, diff the
\* entries of computeDiffEntries; listeners are told only of a non-empty diff
Mutated(sl, al, m2, db, area, diff) ==
  IF Len(diff) > 0
  THEN CHOOSE r \in {AfterDispatch(d, m2, db) :
                     d \in {dispatchChange(sl, al, AreaRegion(area), diff, m2, db)}} : TRUE
  ELSE Returned(TRUE, "", Zero, m2, db, <<>>)

\* a writeWith whose diff entries count their offsets from the written
\* address
TryWriteRelativeOffsets(sl, al, m, db, type, value, descriptor, len) ==
  IF ~assertRange(m, descriptor.area, descriptor.byteOffset, len)
     \/ ~accessorAsserts(m, type, descriptor)
  THEN handleRangeError("RangeError", m, db, <<>>)
  ELSE CHOOSE r \in
         {Mutated(sl, al, m2, db, descriptor.area,
                  computeDiffEntries(0,
                                     readBytes(m, descriptor.area, descriptor.byteOffset, len),
                                     readBytes(m2, descriptor.area, descriptor.byteOffset, len))) :
            m2 \in {mutator(m, type, descriptor, value)}} : TRUE

\* writeWith, the try block: readBytes and the mutator's accessor throw a
\* RangeError before anything is stored
TryWrite(sl, al, m, db, type, value, descriptor, len) ==
  IF ~assertRange(m, descriptor.area, descriptor.byteOffset, len)
     \/ ~accessorAsserts(m, type, descriptor)
  THEN handleRangeError("RangeError", m, db, <<>>)
  ELSE CHOOSE r \in
         {Mutated(sl, al, m2, db, descriptor.area,
                  computeDiffEntries(descriptor.byteOffset,
                                     readBytes(m, descriptor.area, descriptor.byteOffset, len),
                                     readBytes(m2, descriptor.area, descriptor.byteOffset, len))) :
            m2 \in {mutator(m, type, descriptor, value)}} : TRUE

\* writeWith after parser()
WriteParsed(sl, al, m, db, a, type, value, descriptorResult) ==
  IF ~descriptorResult.ok
  THEN IF shouldAttemptSymbolFallback(a, descriptorResult.code)
       THEN writeSymbol(sl, al, m, db, a, type, value)
       ELSE Returned(FALSE, descriptorResult.code, Zero, m, db, <<>>)
  ELSE IF descriptorResult.area \notin ConfiguredAreas
  THEN Returned(FALSE, UninitializedArea, Zero, m, db, <<>>)
  ELSE TryWrite(sl, al, m, db, type, value, descriptorResult, TypeByteLength(type))

\* writeWith, with notify = true
writeWith(sl, al, m, db, a, type, value) ==
  CHOOSE r \in {WriteParsed(sl, al, m, db, a, type, value, descriptorResult) :
                  descriptorResult \in {parser(a, type)}} : TRUE

\* writeBool, writeByte, writeSInt, ..., writeTod
facadeWrite(sl, al, m, db, a, type, value) ==
  IF ~FacadeAccepts(type, value)
  THEN Returned(FALSE, TypeMismatch, Zero, m, db, <<>>)
  ELSE writeWith(sl, al, m, db, a, type, value)

(***************************************************************************)
(* PlcStateImpl: the read path.                                            *)
(***************************************************************************)
\* the decoding of the w bytes a typed accessor reads
Decode(bytes, w, signed) ==
  IF signed THEN DecodeSigned(bytes, w) ELSE DecodeUnsigned(bytes, w)

\* the reader closure: area.readBit / readUInt8 / ... / readBigInt64
reader(m, type, descriptor) ==
  IF type = "BOOL"
  THEN readBit(m, descriptor.area, descriptor.byteOffset, descriptor.bitOffset)
  ELSE Decode(readBytes(m, descriptor.area, descriptor.byteOffset, TypeByteLength(type)),
              TypeByteLength(type), TypeSigned(type))

\* readSymbol after store.read
SymbolRead(m, db, result) ==
  IF ~result.ok THEN Returned(FALSE, result.code, Zero, m, db, <<>>)
  ELSE Returned(TRUE, "", result.value, m, db, <<>>)

\* readSymbol
readSymbol(m, db, a, dataType) ==
  CHOOSE r \in {SymbolRead(m, db, result) : result \in {storeRead(db, a, dataType)}} : TRUE

\* readWith after parser()
ReadParsed(m, db, a, type, descriptorResult) ==
  IF ~descriptorResult.ok
  THEN IF shouldAttemptSymbolFallback(a, descriptorResult.code)
       THEN readSymbol(m, db, a, type)
       ELSE Returned(FALSE, descriptorResult.code, Zero, m, db, <<>>)
  ELSE IF descriptorResult.area \notin ConfiguredAreas
  THEN Returned(FALSE, UninitializedArea, Zero, m, db, <<>>)
  ELSE IF ~accessorAsserts(m, type, descriptorResult)
  THEN handleRangeError("RangeError", m, db, <<>>)
  ELSE Returned(TRUE, "", reader(m, type, descriptorResult), m, db, <<>>)

\* readWith / readBool, readByte, ..., readTod
facadeRead(m, db, a, type) ==
  CHOOSE r \in {ReadParsed(m, db, a, type, descriptorResult) :
                  descriptorResult \in {parser(a, type)}} : TRUE

(***************************************************************************)
(* IR (src/emulator/ir/types.ts).  Statements and expressions are records  *)
(* tagged by kind, as in the source; source ranges are left out.           *)
(***************************************************************************)
Lit(value, valueType) == [kind |-> "literal", value |-> value, valueType |-> valueType]
Var(name) == [kind |-> "variable", name |-> name]
Unary(operator, operand) == [kind |-> "unary", operator |-> operator, operand |-> operand]
Binary(operator, left, right) ==
  [kind |-> "binary", operator |-> operator, left |-> left, right |-> right]
Comparison(operator, left, right) ==
  [kind |-> "comparison", operator |-> operator, left |-> left, right |-> right]

\* an IrAddressExpression / IrAddressReference: a direct address with the
\* data type the builder attached to it
AddressReference(address, hasHint, dataTypeHint) ==
  [kind |-> "address", address |-> address, hasHint |-> hasHint,
   dataTypeHint |-> dataTypeHint]

\* classifyAddress on an address in parsed-apart form: bit addresses are
\* BOOL, the size letter gives BYTE, WORD or DWORD, anything else is no
\* address
classifyAddress(a) ==
  IF a.kind = "bit" /\ a.bitOffset \in 0..9 THEN [classified |-> TRUE, dataType |-> "BOOL"]
  ELSE IF a.kind = "byte" /\ a.size = "B" THEN [classified |-> TRUE, dataType |-> "BYTE"]
  ELSE IF a.kind = "byte" /\ a.size = "W" THEN [classified |-> TRUE, dataType |-> "WORD"]
  ELSE IF a.kind = "byte" /\ a.size = "D" THEN [classified |-> TRUE, dataType |-> "DWORD"]
  ELSE [classified |-> FALSE, dataType |-> ""]

\* buildIdentifier: an identifier that classifyAddress recognises becomes an
\* address with that type as its hint, every other one a variable
buildIdentifier(a) ==
  IF classifyAddress(a).classified
  THEN AddressReference(a, TRUE, classifyAddress(a).dataType)
  ELSE Var(a.name)

\* inferDataTypeFromAddress: "" stands for undefined
inferDataTypeFromAddress(a) == classifyAddress(a).dataType

Assignment(name, expression) ==
  [kind |-> "assignment", target |-> name, expression |-> expression]
\* an assignment whose target is a direct address (buildAssignable)
AddressAssignment(target, expression) ==
  [kind |-> "assignAddress", target |-> target, expression |-> expression]
\* an IrIfBranch; hasCondition FALSE is the bare ELSE (condition null)
Branch(condition, statements) ==
  [hasCondition |-> TRUE, condition |-> condition, statements |-> statements]
ElseBranch(statements) ==
  [hasCondition |-> FALSE, condition |-> Lit(TRUE, "BOOL"), statements |-> statements]
If(branches) == [kind |-> "if", branches |-> branches]
While(condition, body) == [kind |-> "while", condition |-> condition, body |-> body]
For(iterator, initial, end, hasStep, step, body) ==
  [kind |-> "for", iterator |-> iterator, initial |-> initial, end |-> end,
   hasStep |-> hasStep, step |-> step, body |-> body]
ValueSelector(expression) == [kind |-> "value", expression |-> expression, end |-> expression]
RangeSelector(start, end) == [kind |-> "range", expression |-> start, end |-> end]
CaseBranch(selectors, statements) == [selectors |-> selectors, statements |-> statements]
Case(discriminant, cases, hasElse, elseBranch) ==
  [kind |-> "case", discriminant |-> discriminant, cases |-> cases,
   hasElse |-> hasElse, elseBranch |-> elseBranch]
Exit == [kind |-> "exit"]
Continue == [kind |-> "continue"]

(***************************************************************************)
(* Interpreter: numbers.  A JavaScript number is kept as the exact         *)
(* fraction n/d in lowest terms with d > 0; a bigint is a fraction with    *)
(* d = 1.  The fractions the checked programs compute have a power of two  *)
(* as denominator and a small numerator, and on those IEEE-754 double      *)
(* arithmetic is exact.                                                    *)
(***************************************************************************)
Abs(n) == IF n < 0 THEN 0 - n ELSE n
RECURSIVE Gcd(_, _)
Gcd(a, b) == IF b = 0 THEN a ELSE Gcd(b, a % b)
Reduced(n, d, g) == [n |-> (IF d < 0 THEN 0 - n ELSE n) \div g, d |-> Abs(d) \div g]
Ratio(n, d) == Reduced(n, d, Gcd(Abs(n), Abs(d)))
Rat(n) == [n |-> n, d |-> 1]
RatAdd(a, b) == Ratio(a.n * b.d + b.n * a.d, a.d * b.d)
RatSub(a, b) == Ratio(a.n * b.d - b.n * a.d, a.d * b.d)
RatMul(a, b) == Ratio(a.n * b.n, a.d * b.d)
RatDiv(a, b) == Ratio(a.n * b.d, a.d * b.n)
RatNeg(a) == [n |-> 0 - a.n, d |-> a.d]
\* Number.isFinite; a fraction with denominator 0 stands for Infinity or
\* NaN, which no operation of the interpreter yields
IsFinite(a) == a.d # 0
\* Math.trunc: toward zero
Trunc(a) == IF a.n >= 0 THEN a.n \div a.d ELSE 0 - ((0 - a.n) \div a.d)
\* bigint division: the quotient truncated toward zero
BigIntDiv(a, b) == Trunc(RatDiv(a, b))

(***************************************************************************)
(* Interpreter: values and conversions.  An ExecutionValue is              *)
(* [value, dataType]; value is a boolean when dataType is BOOL, a bigint   *)
(* when it is LINT and a number otherwise.  err names the                  *)
(* SclEmulatorRuntimeError thrown while computing it, "none" when nothing  *)
(* was thrown.                                                             *)
(***************************************************************************)
Value(value, dataType) == [err |-> "none", value |-> value, dataType |-> dataType]
Raise(err) == [err |-> err, value |-> Rat(0), dataType |-> "INT"]

toBoolean(v) == IF v.dataType = "BOOL" THEN v.value ELSE v.value.n # 0

toNumber(v) == IF v.dataType = "BOOL" THEN (IF v.value THEN Rat(1) ELSE Rat(0)) ELSE v.value

\* toBigInt: a bigint as it is, a number truncated, a boolean throws
toBigInt(v) ==
  IF v.dataType = "BOOL" THEN Raise("Expected an integer value for LINT arithmetic")
  ELSE IF v.dataType = "LINT" THEN Value(v.value, "LINT")
  ELSE IF ~IsFinite(v.value) THEN Raise("Cannot convert non-finite number to LINT")
  ELSE Value(Rat(Trunc(v.value)), "LINT")

\* the ladder alone, without the forced float of a division
promoteNumericTypeUnforced(left, right, forceReal) ==
  IF left \in {"REAL", "LREAL"} \/ right \in {"REAL", "LREAL"}
  THEN (IF left = "LREAL" \/ right = "LREAL" THEN "LREAL" ELSE "REAL")
  ELSE IF left = "LINT" \/ right = "LINT" THEN "LINT"
  ELSE IF left = "DINT" \/ right = "DINT" THEN "DINT"
  ELSE IF left = "INT" \/ right = "INT" THEN "INT"
  ELSE IF left = "SINT" \/ right = "SINT" THEN "SINT"
  ELSE IF left = "DWORD" \/ right = "DWORD" THEN "DWORD"
  ELSE IF left = "WORD" \/ right = "WORD" THEN "WORD"
  ELSE IF left = "BYTE" \/ right = "BYTE" THEN "BYTE"
  ELSE left

promoteNumericType(left, right, forceReal) ==
  IF forceReal \/ left \in {"REAL", "LREAL"} \/ right \in {"REAL", "LREAL"}
  THEN (IF left = "LREAL" \/ right = "LREAL" THEN "LREAL" ELSE "REAL")
  ELSE IF left = "LINT" \/ right = "LINT" THEN "LINT"
  ELSE IF left = "DINT" \/ right = "DINT" THEN "DINT"
  ELSE IF left = "INT" \/ right = "INT" THEN "INT"
  ELSE IF left = "SINT" \/ right = "SINT" THEN "SINT"
  ELSE IF left = "DWORD" \/ right = "DWORD" THEN "DWORD"
  ELSE IF left = "WORD" \/ right = "WORD" THEN "WORD"
  ELSE IF left = "BYTE" \/ right = "BYTE" THEN "BYTE"
  ELSE left

\* compareNumbers; the difference is a number
compareNumbers(difference, operator) ==
  CASE operator = "EQ" -> difference.n = 0
    [] operator = "NEQ" -> difference.n # 0
    [] operator = "LT" -> difference.n < 0
    [] operator = "LTE" -> difference.n <= 0
    [] operator = "GT" -> difference.n > 0
    [] operator = "GTE" -> difference.n >= 0

\* compareExecutionValues, 64-bit branch: both sides through toBigInt
CompareBigInts(lhs, rhs, operator) ==
  IF lhs.err # "none" THEN lhs
  ELSE IF rhs.err # "none" THEN rhs
  ELSE Value(compareNumbers(RatSub(lhs.value, rhs.value), operator), "BOOL")

\* compareExecutionValues: the verdict as a BOOL value (err set when it throws)
compareExecutionValues(left, right, operator) ==
  IF left.dataType = "BOOL" \/ right.dataType = "BOOL"
  THEN Value(compareNumbers(IF toBoolean(left) = toBoolean(right) THEN Rat(0)
                            ELSE IF toBoolean(left) THEN Rat(1) ELSE Rat(0 - 1), operator),
             "BOOL")
  ELSE IF left.dataType = "LINT" \/ right.dataType = "LINT"
  THEN CompareBigInts(toBigInt(left), toBigInt(right), operator)
  ELSE Value(compareNumbers(RatSub(toNumber(left), toNumber(right)), operator), "BOOL")

\* bounds handed to clampInteger by normalizeForType.  No number of the
\* checked programs reaches 0xffffffff, the upper bound of DWORD and TOD.
TypeMin(type) ==
  CASE type \in {"BYTE", "WORD", "DWORD", "DATE", "TOD"} -> 0
    [] type = "SINT" -> -128
    [] type = "INT" -> -32768
    [] type = "DINT" -> -2147483647 - 1
TypeMax(type) ==
  CASE type = "BYTE" -> 255
    [] type \in {"WORD", "DATE"} -> 65535
    [] type = "SINT" -> 127
    [] type = "INT" -> 32767
    [] type \in {"DINT", "DWORD", "TOD"} -> 2147483647

\* a clampInteger that pulls the truncated value into [min, max]
clampIntegerSaturating(value, min, max) ==
  Value(Rat(IF Trunc(value) < min THEN min ELSE IF Trunc(value) > max THEN max ELSE Trunc(value)),
        "INT")

\* clampInteger: Math.trunc, then the truncated value itself or a thrown
\* error when it is outside [min, max]
clampInteger(value, min, max) ==
  IF ~IsFinite(value) THEN Raise("Expected a finite number")
  ELSE IF Trunc(value) < min \/ Trunc(value) > max THEN Raise("outside allowed range")
  ELSE Value(Rat(Trunc(value)), "INT")

\* normalizeForType: the coerced value (err set when it throws)
normalizeForType(v, target) ==
  IF target = "BOOL" THEN Value(toBoolean(v), "BOOL")
  ELSE IF target = "LINT" THEN toBigInt(v)
  ELSE IF target = "TIME" THEN Value(Rat(Trunc(toNumber(v))), "TIME")
  ELSE [clampInteger(toNumber(v), TypeMin(target), TypeMax(target)) EXCEPT !.dataType = target]

\* the SymbolBinding of a declared variable: options.symbols[name] with the
\* declared data type (buildSymbolTable, string form of the binding input)
Declared(prog) == {prog.variables[i].name : i \in 1..Len(prog.variables)}
DeclaredType(prog, name) ==
  LET i == CHOOSE k \in 1..Len(prog.variables) : prog.variables[k].name = name
  IN prog.variables[i].dataType
IsBound(prog, name) == name \in Declared(prog) /\ name \in DOMAIN prog.symbols
Binding(prog, name) == [address |-> prog.symbols[name], dataType |-> DeclaredType(prog, name)]

\* performRead: a failed facade read is thrown, a value is tagged with its type
ReadResult(result, dataType) ==
  IF ~result.ok THEN Raise(result.code)
  ELSE Value(IF dataType = "BOOL" THEN result.value ELSE Rat(ToInt(result.value)), dataType)

\* readAddress / performRead: read through the facade, a failure is thrown
readAddress(m, db, address, dataType) ==
  CHOOSE r \in {ReadResult(result, dataType) :
                  result \in {facadeRead(m, db, address, dataType)}} : TRUE

\* the data type of a direct address: dataTypeHint ?? addressTypes[address]
\* ?? inferDataTypeFromAddress(address)
addressDataType(prog, reference) ==
  IF reference.hasHint THEN reference.dataTypeHint
  ELSE IF reference.address \in DOMAIN prog.addressTypes
  THEN prog.addressTypes[reference.address]
  ELSE inferDataTypeFromAddress(reference.address)

\* evaluateNumericBinary, 64-bit branch, the operands through toBigInt
BigIntBinary(operator, lhs, rhs) ==
  IF lhs.err # "none" THEN lhs
  ELSE IF rhs.err # "none" THEN rhs
  ELSE CASE operator = "ADD" -> Value(RatAdd(lhs.value, rhs.value), "LINT")
         [] operator = "SUBTRACT" -> Value(RatSub(lhs.value, rhs.value), "LINT")
         [] operator = "MULTIPLY" -> Value(RatMul(lhs.value, rhs.value), "LINT")
         [] operator = "DIVIDE" ->
              IF rhs.value.n = 0 THEN Raise("Division by zero")
              ELSE Value(Rat(BigIntDiv(lhs.value, rhs.value)), "LINT")

\* evaluateNumericBinary, number branch
NumberBinary(operator, lhs, rhs, leftType, rightType) ==
  CASE operator = "ADD" -> Value(RatAdd(lhs, rhs), promoteNumericType(leftType, rightType, FALSE))
    [] operator = "SUBTRACT" ->
         Value(RatSub(lhs, rhs), promoteNumericType(leftType, rightType, FALSE))
    [] operator = "MULTIPLY" ->
         Value(RatMul(lhs, rhs), promoteNumericType(leftType, rightType, FALSE))
    [] operator = "DIVIDE" ->
         IF rhs.n = 0 THEN Raise("Division by zero")
         ELSE Value(RatDiv(lhs, rhs), promoteNumericType(leftType, rightType, TRUE))

\* a division without the zero test: it hands on what IEEE-754 gives for a
\* zero divisor, Infinity or NaN
evaluateNumericBinaryUnchecked(operator, left, right) ==
  IF operator = "DIVIDE" /\ toNumber(right).n = 0
  THEN Value([n |-> toNumber(left).n, d |-> 0], "REAL")
  ELSE IF left.dataType = "LINT" \/ right.dataType = "LINT"
  THEN BigIntBinary(operator, toBigInt(left), toBigInt(right))
  ELSE NumberBinary(operator, toNumber(left), toNumber(right), left.dataType, right.dataType)

evaluateNumericBinary(operator, left, right) ==
  IF left.dataType = "LINT" \/ right.dataType = "LINT"
  THEN BigIntBinary(operator, toBigInt(left), toBigInt(right))
  ELSE NumberBinary(operator, toNumber(left), toNumber(right), left.dataType, right.dataType)

RECURSIVE evaluateExpression(_, _, _, _)
\* toBoolean throws for a value that is neither boolean nor number nor
\* bigint: a string
booleanCompatible(v) == v.dataType # "STRING"
NotBoolean == Raise("Expected a boolean-compatible value")

\* evaluateBinary; toBoolean(left) && toBoolean(right) converts the right
\* value only when the left one is true, || only when it is false
evaluateBinary(operator, left, right) ==
  CASE operator = "AND" ->
         IF ~booleanCompatible(left) THEN NotBoolean
         ELSE IF ~toBoolean(left) THEN Value(FALSE, "BOOL")
         ELSE IF ~booleanCompatible(right) THEN NotBoolean
         ELSE Value(toBoolean(right), "BOOL")
    [] operator = "OR" ->
         IF ~booleanCompatible(left) THEN NotBoolean
         ELSE IF toBoolean(left) THEN Value(TRUE, "BOOL")
         ELSE IF ~booleanCompatible(right) THEN NotBoolean
         ELSE Value(toBoolean(right), "BOOL")
    [] operator = "XOR" ->
         IF ~booleanCompatible(left) \/ ~booleanCompatible(right) THEN NotBoolean
         ELSE Value((toBoolean(left) \/ toBoolean(right)) /\ ~(toBoolean(left) /\ toBoolean(right)),
                    "BOOL")
    [] operator \in {"ADD", "SUBTRACT", "MULTIPLY", "DIVIDE"} ->
         evaluateNumericBinary(operator, left, right)

evaluateUnary(operator, operand) ==
  IF operator = "NOT" THEN Value(~toBoolean(operand), "BOOL")
  ELSE IF operand.dataType = "LINT" THEN Value(RatNeg(operand.value), "LINT")
  ELSE Value(RatNeg(toNumber(operand)),
             promoteNumericType(operand.dataType, operand.dataType, FALSE))

\* evaluateUnary / evaluateBinary / evaluateComparison once the operands are
\* evaluated; an operand that threw ends the evaluation, the left one first
ApplyUnary(operator, operand) ==
  IF operand.err # "none" THEN operand ELSE evaluateUnary(operator, operand)
ApplyBinary(operator, left, right) ==
  IF left.err # "none" THEN left
  ELSE IF right.err # "none" THEN right
  ELSE evaluateBinary(operator, left, right)
ApplyComparison(operator, left, right) ==
  IF left.err # "none" THEN left
  ELSE IF right.err # "none" THEN right
  ELSE compareExecutionValues(left, right, operator)

\* readAddress of a variable's binding
ReadBinding(m, db, binding) == readAddress(m, db, binding.address, binding.dataType)

evaluateExpression(prog, m, db, expression) ==
  CASE expression.kind = "literal" -> Value(expression.value, expression.valueType)
    [] expression.kind = "address" ->
         IF addressDataType(prog, expression) = "" THEN Raise("Unable to infer data type")
         ELSE readAddress(m, db, expression.address, addressDataType(prog, expression))
    [] expression.kind = "variable" ->
         IF ~IsBound(prog, expression.name) THEN Raise("not bound")
         ELSE ReadBinding(m, db, Binding(prog, expression.name))
    [] expression.kind = "unary" ->
         CHOOSE r \in {ApplyUnary(expression.operator, operand) :
                         operand \in {evaluateExpression(prog, m, db, expression.operand)}} : TRUE
    [] expression.kind = "binary" ->
         CHOOSE r \in {ApplyBinary(expression.operator, left, right) :
                         left \in {evaluateExpression(prog, m, db, expression.left)},
                         right \in {evaluateExpression(prog, m, db, expression.right)}} : TRUE
    [] expression.kind = "comparison" ->
         CHOOSE r \in {ApplyComparison(expression.operator, left, right) :
                         left \in {evaluateExpression(prog, m, db, expression.left)},
                         right \in {evaluateExpression(prog, m, db, expression.right)}} : TRUE

\* a write that reaches memory without any listener being told
WriteResultUnheard(result, coercedValue) ==
  [err |-> IF result.thrown # "none" THEN result.thrown
           ELSE IF ~result.ok THEN result.code ELSE "none",
   value |-> IF result.ok THEN coercedValue ELSE Rat(0),
   mem |-> result.mem, db |-> result.db, calls |-> <<>>]

\* writeAddress / writeBinding / performWrite: coerce, write through the
\* facade; the result carries the memory after the write and the coerced
\* value (the ExecutionEffect's value)
WriteResult(result, coercedValue) ==
  IF result.thrown # "none"
  THEN [err |-> result.thrown, value |-> Rat(0), mem |-> result.mem, db |-> result.db,
        calls |-> result.calls]
  ELSE IF ~result.ok
  THEN [err |-> result.code, value |-> Rat(0), mem |-> result.mem, db |-> result.db,
        calls |-> result.calls]
  ELSE [err |-> "none", value |-> coercedValue, mem |-> result.mem, db |-> result.db,
        calls |-> result.calls]

\* performWrite after normalizeForType
WriteCoerced(sl, al, m, db, address, dataType, coerced) ==
  IF coerced.err # "none"
  THEN [err |-> coerced.err, value |-> Rat(0), mem |-> m, db |-> db, calls |-> <<>>]
  ELSE CHOOSE r \in
         {WriteResult(result, coerced.value) :
            result \in {facadeWrite(sl, al, m, db, address, dataType,
                                    IF dataType = "BOOL" THEN coerced.value
                                    ELSE FromInt(coerced.value.n))}} : TRUE

writeAddress(sl, al, m, db, address, dataType, v) ==
  CHOOSE r \in {WriteCoerced(sl, al, m, db, address, dataType, coerced) :
                  coerced \in {normalizeForType(v, dataType)}} : TRUE

(***************************************************************************)
(* Interpreter: activation records.  The recursion of executeStatement is  *)
(* unfolded into a stack: a block record is one running executeBlock (or   *)
(* the statement loop of execute), a while/for record one running          *)
(* executeWhile/executeFor with its locals.  tests and runs count the      *)
(* continuation tests made and the bodies started by that loop execution.  *)
(***************************************************************************)
BlockFrame(statements, inLoop) ==
  [kind |-> "block", statements |-> statements, pc |-> 1, inLoop |-> inLoop]
WhileFrame(statement) ==
  [kind |-> "while", statement |-> statement, iterations |-> 0, tests |-> 0, runs |-> 0]
ForFrame(statement, current, endNumeric, stepNumeric, effects) ==
  [kind |-> "for", statement |-> statement, current |-> current, endNumeric |-> endNumeric,
   stepNumeric |-> stepNumeric, iterations |-> 0, tests |-> 0, runs |-> 0, effects |-> effects]

Top == stack[Len(stack)]
Pop(st) == SubSeq(st, 1, Len(st) - 1)
ReplaceTop(st, frame) == [st EXCEPT ![Len(st)] = frame]

\* the next statement of the block on top of the stack
AtStatement(kind) ==
  /\ status = "running"
  /\ control = "none"
  /\ Len(stack) > 0
  /\ Top.kind = "block"
  /\ Top.pc <= Len(Top.statements)
  /\ Top.statements[Top.pc].kind = kind
Current == Top.statements[Top.pc]
Advance(st) == ReplaceTop(st, [st[Len(st)] EXCEPT !.pc = @ + 1])

\* an ExecutionEffect: what a write stored, and where
Effect(address, dataType, w) == [address |-> address, dataType |-> dataType, value |-> w.value]

\* the write is noted in the order of the writes, with the listener calls
\* it made and the statement that made it
Logged(tr, effect, w, by) ==
  IF tr.enabled
  THEN [tr EXCEPT !.log = Append(@, [effect |-> effect, calls |-> w.calls, by |-> by])]
  ELSE tr

\* if (this.traceEnabled) this.traceEntries.push({ statementRange, effects })
Pushed(tr, statement, effects) ==
  IF tr.enabled
  THEN [tr EXCEPT !.entries = Append(@, [statement |-> statement.kind, effects |-> effects])]
  ELSE tr

Fail_(message) ==
  /\ status' = "failed"
  /\ failure' = message
  /\ UNCHANGED <<stack, control, bodyRuns>>

\* variants of the guard: off by one either way
LoopGuardAtCap(iterations, max) == iterations >= max
LoopGuardPastCap(iterations, max) == iterations > max + 1

\* the guard of executeWhile and executeFor: iterations > this.maxLoopIterations
LoopGuardExceeded(iterations, max) == iterations > max

\* evaluateExpression and writeBinding on the state of the scan
Evaluate(expression) == evaluateExpression(program, mem, dbValues, expression)
writeBinding(binding, v) ==
  writeAddress(stateListeners, areaListeners, mem, dbValues, binding.address, binding.dataType, v)

\* a buildSymbolTable that looks only at the variables with an initializer
MissingBindingOfInitialized(prog) ==
  \E i \in 1..Len(prog.variables) :
    prog.variables[i].hasInitializer /\ prog.variables[i].name \notin DOMAIN prog.symbols

\* buildSymbolTable: a declared variable without a binding throws
MissingBinding(prog) ==
  \E i \in 1..Len(prog.variables) : prog.variables[i].name \notin DOMAIN prog.symbols

\* initializeVariables, from variable i on: evaluate each initializer and
\* write it through the binding; made lists the listener calls so far
RECURSIVE initializeVariables(_, _, _, _, _, _, _)
\* an initializer pass that writes nothing
initializeVariablesSkipped(prog, sl, al, m, db, i, made) ==
  [err |-> "none", mem |-> m, db |-> db, calls |-> made]
InitializerWritten(prog, sl, al, i, made, w) ==
  IF w.err # "none" THEN [err |-> w.err, mem |-> w.mem, db |-> w.db, calls |-> made \o w.calls]
  ELSE initializeVariables(prog, sl, al, w.mem, w.db, i + 1, made \o w.calls)
InitializerEvaluated(prog, sl, al, m, db, i, made, binding, v) ==
  IF v.err # "none" THEN [err |-> v.err, mem |-> m, db |-> db, calls |-> made]
  ELSE CHOOSE r \in {InitializerWritten(prog, sl, al, i, made, w) :
                     w \in {writeAddress(sl, al, m, db, binding.address, binding.dataType, v)}} :
         TRUE
initializeVariables(prog, sl, al, m, db, i, made) ==
  IF i > Len(prog.variables) THEN [err |-> "none", mem |-> m, db |-> db, calls |-> made]
  ELSE IF ~prog.variables[i].hasInitializer
  THEN initializeVariables(prog, sl, al, m, db, i + 1, made)
  ELSE CHOOSE r \in
         {InitializerEvaluated(prog, sl, al, m, db, i, made,
                               Binding(prog, prog.variables[i].name), v) :
            v \in {evaluateExpression(prog, m, db, prog.variables[i].initializer)}} : TRUE

\* what the start of a scan did: the listener calls of the initializer
\* pass and the memory the scan found
ScanStarted(made) ==
  [op |-> "scan", calls |-> made, memBefore |-> mem, dbBefore |-> dbValues]

\* execute() after initializeVariables
Initialized(r) ==
  /\ mem' = r.mem
  /\ dbValues' = r.db
  /\ lastCall' = ScanStarted(r.calls)
  /\ IF r.err # "none"
     THEN status' = "failed" /\ failure' = r.err /\ UNCHANGED stack
     ELSE /\ status' = "running"
          /\ failure' = "none"
          /\ stack' = <<BlockFrame(program.statements, FALSE)>>

\* Interpreter.execute, up to the first statement
Execute ==
  /\ status = "idle"
  /\ UNCHANGED <<storeVars, handles, trace, program, maxLoopIterations, stateListeners, areaListeners, callCount,
                 control, bodyRuns>>
  /\ IF MissingBinding(program)
     THEN /\ status' = "failed"
          /\ failure' = "no binding"
          /\ lastCall' = ScanStarted(<<>>)
          /\ UNCHANGED <<mem, dbValues, stack>>
     ELSE \E r \in {initializeVariables(program, stateListeners, areaListeners,
                                         mem, dbValues, 1, <<>>)} : Initialized(r)

\* executeAssignment after writeBinding
Assigned(w, address, dataType) ==
  /\ mem' = w.mem
  /\ dbValues' = w.db
  /\ IF w.err # "none" THEN Fail_(w.err) /\ UNCHANGED trace
     ELSE /\ stack' = Advance(stack)
          /\ trace' = Pushed(Logged(trace, Effect(address, dataType, w), w, "assignment"), Current,
                             <<Effect(address, dataType, w)>>)
          /\ UNCHANGED <<control, status, failure, bodyRuns>>

\* executeAssignment after the expression is evaluated
AssignValue(v) ==
  IF v.err # "none" THEN Fail_(v.err) /\ UNCHANGED <<mem, dbValues, trace>>
  ELSE IF ~IsBound(program, Current.target)
  THEN Fail_("not bound") /\ UNCHANGED <<mem, dbValues, trace>>
  ELSE \E w \in {writeBinding(Binding(program, Current.target), v)} :
         Assigned(w, Binding(program, Current.target).address,
                  Binding(program, Current.target).dataType)

\* executeAssignment (variable target)
ExecuteAssignment ==
  /\ AtStatement("assignment")
  /\ UNCHANGED <<storeVars, handles, program, maxLoopIterations, stateListeners, areaListeners, lastCall, callCount>>
  /\ \E v \in {Evaluate(Current.expression)} : AssignValue(v)

\* executeAssignment after the expression is evaluated, address target
AssignAddress(v) ==
  IF v.err # "none" THEN Fail_(v.err) /\ UNCHANGED <<mem, dbValues, trace>>
  ELSE IF addressDataType(program, Current.target) = ""
  THEN Fail_("Unable to infer data type") /\ UNCHANGED <<mem, dbValues, trace>>
  ELSE \E w \in {writeAddress(stateListeners, areaListeners, mem, dbValues,
                               Current.target.address,
                               addressDataType(program, Current.target), v)} :
         Assigned(w, Current.target.address, addressDataType(program, Current.target))

\* executeAssignment (address target)
ExecuteAddressAssignment ==
  /\ AtStatement("assignAddress")
  /\ UNCHANGED <<storeVars, handles, program, maxLoopIterations, stateListeners, areaListeners, lastCall, callCount>>
  /\ \E v \in {Evaluate(Current.expression)} : AssignAddress(v)

\* executeIf: the first branch without a condition or whose condition is
\* true; index 0 when no branch is taken
RECURSIVE SelectIfBranch(_, _, _, _, _)
ConditionEvaluated(prog, m, db, branches, i, c) ==
  IF c.err # "none" THEN [err |-> c.err, index |-> 0]
  ELSE IF toBoolean(c) THEN [err |-> "none", index |-> i]
  ELSE SelectIfBranch(prog, m, db, branches, i + 1)
SelectIfBranch(prog, m, db, branches, i) ==
  IF i > Len(branches) THEN [err |-> "none", index |-> 0]
  ELSE IF ~branches[i].hasCondition THEN [err |-> "none", index |-> i]
  ELSE CHOOSE r \in {ConditionEvaluated(prog, m, db, branches, i, c) :
                     c \in {evaluateExpression(prog, m, db, branches[i].condition)}} : TRUE

\* an executeIf that runs its branch as if it were a loop body
IfSelectedInLoop(sel) ==
  IF sel.err # "none" THEN Fail_(sel.err)
  ELSE /\ stack' = IF sel.index = 0 THEN Advance(stack)
                   ELSE Append(Advance(stack),
                               BlockFrame(Current.branches[sel.index].statements, TRUE))
       /\ UNCHANGED <<control, status, failure, bodyRuns>>

\* executeIf: run the selected branch as a block with the caller's inLoop
IfSelected(sel) ==
  IF sel.err # "none" THEN Fail_(sel.err)
  ELSE /\ stack' = IF sel.index = 0 THEN Advance(stack)
                   ELSE Append(Advance(stack),
                               BlockFrame(Current.branches[sel.index].statements, Top.inLoop))
       /\ UNCHANGED <<control, status, failure, bodyRuns>>

ExecuteIf ==
  /\ AtStatement("if")
  /\ UNCHANGED <<storeVars, handles, trace, program, maxLoopIterations, facadeVars>>
  /\ \E sel \in {SelectIfBranch(program, mem, dbValues, Current.branches, 1)} : IfSelected(sel)

\* caseBranchMatches: some selector of the branch matches the discriminant
RECURSIVE caseBranchMatches(_, _, _, _, _, _)
\* a range selector a..b that leaves b out
SelectorEvaluatedExclusive(prog, m, db, selectors, discriminant, i, first, last) ==
  IF first.err # "none" THEN [err |-> first.err, matches |-> FALSE]
  ELSE IF last.err # "none" THEN [err |-> last.err, matches |-> FALSE]
  ELSE IF (IF selectors[i].kind = "value"
           THEN compareExecutionValues(discriminant, first, "EQ").value
           ELSE compareExecutionValues(discriminant, first, "GTE").value
                  /\ compareExecutionValues(discriminant, last, "LT").value)
  THEN [err |-> "none", matches |-> TRUE]
  ELSE caseBranchMatches(prog, m, db, selectors, discriminant, i + 1)

SelectorEvaluated(prog, m, db, selectors, discriminant, i, first, last) ==
  IF first.err # "none" THEN [err |-> first.err, matches |-> FALSE]
  ELSE IF last.err # "none" THEN [err |-> last.err, matches |-> FALSE]
  ELSE IF (IF selectors[i].kind = "value"
           THEN compareExecutionValues(discriminant, first, "EQ").value
           ELSE compareExecutionValues(discriminant, first, "GTE").value
                  /\ compareExecutionValues(discriminant, last, "LTE").value)
  THEN [err |-> "none", matches |-> TRUE]
  ELSE caseBranchMatches(prog, m, db, selectors, discriminant, i + 1)
caseBranchMatches(prog, m, db, selectors, discriminant, i) ==
  IF i > Len(selectors) THEN [err |-> "none", matches |-> FALSE]
  ELSE CHOOSE r \in
         {SelectorEvaluated(prog, m, db, selectors, discriminant, i, first, last) :
            first \in {evaluateExpression(prog, m, db, selectors[i].expression)},
            last \in {evaluateExpression(prog, m, db, selectors[i].end)}} : TRUE

\* executeCase: the first matching branch, index 0 when none matches
RECURSIVE SelectCaseBranch(_, _, _, _, _, _)
BranchMatched(prog, m, db, cases, discriminant, i, r) ==
  IF r.err # "none" THEN [err |-> r.err, index |-> 0]
  ELSE IF r.matches THEN [err |-> "none", index |-> i]
  ELSE SelectCaseBranch(prog, m, db, cases, discriminant, i + 1)
SelectCaseBranch(prog, m, db, cases, discriminant, i) ==
  IF i > Len(cases) THEN [err |-> "none", index |-> 0]
  ELSE CHOOSE r \in
         {BranchMatched(prog, m, db, cases, discriminant, i, matched) :
            matched \in {caseBranchMatches(prog, m, db, cases[i].selectors, discriminant, 1)}} :
         TRUE

\* executeCase: run the matching branch, else the ELSE branch, else nothing
CaseSelected(sel) ==
  IF sel.err # "none" THEN Fail_(sel.err)
  ELSE /\ stack' = IF sel.index # 0
                   THEN Append(Advance(stack),
                               BlockFrame(Current.cases[sel.index].statements, Top.inLoop))
                   ELSE IF Current.hasElse
                   THEN Append(Advance(stack), BlockFrame(Current.elseBranch, Top.inLoop))
                   ELSE Advance(stack)
       /\ UNCHANGED <<control, status, failure, bodyRuns>>

\* executeCase after the discriminant is evaluated
CaseDiscriminated(discriminant) ==
  IF discriminant.err # "none" THEN Fail_(discriminant.err)
  ELSE \E sel \in {SelectCaseBranch(program, mem, dbValues, Current.cases, discriminant, 1)} :
         CaseSelected(sel)

ExecuteCase ==
  /\ AtStatement("case")
  /\ UNCHANGED <<storeVars, handles, trace, program, maxLoopIterations, facadeVars>>
  /\ \E discriminant \in {Evaluate(Current.discriminant)} : CaseDiscriminated(discriminant)

\* executeStatement, case "exit": legal only when inLoop
ExecuteExit ==
  /\ AtStatement("exit")
  /\ UNCHANGED <<storeVars, handles, trace, program, maxLoopIterations, facadeVars>>
  /\ IF ~Top.inLoop THEN Fail_("EXIT outside loop")
     ELSE /\ control' = "exit"
          /\ stack' = Advance(stack)
          /\ UNCHANGED <<status, failure, bodyRuns>>

\* executeStatement, case "continue": legal only when inLoop
ExecuteContinue ==
  /\ AtStatement("continue")
  /\ UNCHANGED <<storeVars, handles, trace, program, maxLoopIterations, facadeVars>>
  /\ IF ~Top.inLoop THEN Fail_("CONTINUE outside loop")
     ELSE /\ control' = "continue"
          /\ stack' = Advance(stack)
          /\ UNCHANGED <<status, failure, bodyRuns>>

\* executeStatement, case "while": a new executeWhile with iterations = 0
EnterWhile ==
  /\ AtStatement("while")
  /\ UNCHANGED <<storeVars, handles, trace, program, maxLoopIterations, facadeVars>>
  /\ stack' = Append(Advance(stack), WhileFrame(Current))
  /\ UNCHANGED <<control, status, failure, bodyRuns>>

\* a loop head without the guard and its counter
LoopTestedUnguarded(continues, message) ==
  IF ~continues
  THEN /\ stack' = Pop(stack)
       /\ control' = "normal"
       /\ UNCHANGED <<status, failure, bodyRuns>>
  ELSE /\ stack' = Append(stack, BlockFrame(Top.statement.body, TRUE))
       /\ UNCHANGED <<control, status, failure, bodyRuns>>

\* the head of both loops once the continuation test is made: leave on a
\* false test; else count the iteration, throw when the count is over the
\* cap, else run the body with inLoop = true
LoopTested(continues, message) ==
  IF ~continues
  THEN /\ stack' = Pop(stack)
       /\ control' = "normal"
       /\ UNCHANGED <<status, failure, bodyRuns>>
  ELSE IF LoopGuardExceeded(Top.iterations + 1, maxLoopIterations)
  THEN /\ status' = "failed"
       /\ failure' = message
       /\ stack' = ReplaceTop(stack, [Top EXCEPT !.tests = @ + 1, !.iterations = @ + 1])
       /\ UNCHANGED <<control, bodyRuns>>
  ELSE /\ stack' = Append(ReplaceTop(stack, [Top EXCEPT !.tests = @ + 1, !.iterations = @ + 1,
                                                        !.runs = @ + 1]),
                          BlockFrame(Top.statement.body, TRUE))
       /\ bodyRuns' = bodyRuns + 1
       /\ UNCHANGED <<control, status, failure>>

\* executeWhile after the condition is evaluated
WhileTested(condition) ==
  IF condition.err # "none" THEN Fail_(condition.err)
  ELSE LoopTested(toBoolean(condition), "WHILE loop exceeded")

\* executeWhile, head of the loop: test, count, guard, start the body
WhileTest ==
  /\ status = "running"
  /\ control = "none"
  /\ Len(stack) > 0
  /\ Top.kind = "while"
  /\ UNCHANGED <<storeVars, handles, trace, program, maxLoopIterations, facadeVars>>
  /\ \E condition \in {Evaluate(Top.statement.condition)} : WhileTested(condition)

\* executeWhile, after executeBlock returned: exit breaks, continue and
\* normal go back to the test
WhileResume ==
  /\ status = "running"
  /\ control # "none"
  /\ Len(stack) > 0
  /\ Top.kind = "while"
  /\ UNCHANGED <<storeVars, handles, trace, program, maxLoopIterations, facadeVars>>
  /\ IF control = "exit"
     THEN stack' = Pop(stack) /\ control' = "normal"
     ELSE stack' = stack /\ control' = "none"
  /\ UNCHANGED <<status, failure, bodyRuns>>

\* toBigInt for a LINT iterator (useBigInt), toNumber for every other
ForNumeric(useBigInt, v) == IF useBigInt THEN toBigInt(v) ELSE Value(toNumber(v), v.dataType)

\* executeFor once current, endNumeric and stepNumeric are converted: a zero
\* step throws
ForNumerics(current, endNumeric, stepNumeric, effects) ==
  IF current.err # "none" THEN Fail_(current.err)
  ELSE IF endNumeric.err # "none" THEN Fail_(endNumeric.err)
  ELSE IF stepNumeric.err # "none" THEN Fail_(stepNumeric.err)
  ELSE IF stepNumeric.value.n = 0 THEN Fail_("FOR loop step cannot be zero")
  ELSE /\ stack' = Append(Advance(stack),
                          ForFrame(Current, current.value, endNumeric.value, stepNumeric.value,
                                   effects))
       /\ UNCHANGED <<control, status, failure, bodyRuns>>

\* executeFor after end and step are evaluated, in the order the code
\* converts them: current, then the end, then the step
ForBounded(binding, initEffect, endValue, stepValue) ==
  IF endValue.err # "none" THEN Fail_(endValue.err)
  ELSE IF stepValue.err # "none" THEN Fail_(stepValue.err)
  ELSE ForNumerics(ForNumeric(binding.dataType = "LINT",
                              Value(initEffect.value, binding.dataType)),
                   ForNumeric(binding.dataType = "LINT", endValue),
                   ForNumeric(binding.dataType = "LINT", stepValue),
                   <<Effect(binding.address, binding.dataType, initEffect)>>)

\* executeFor after the initial value is written: end and step are evaluated
\* once, on the memory the write left
ForInitialized(binding, initEffect) ==
  /\ mem' = initEffect.mem
  /\ dbValues' = initEffect.db
  /\ trace' = IF initEffect.err # "none" THEN trace
              ELSE Logged(trace, Effect(binding.address, binding.dataType, initEffect),
                          initEffect, "for")
  /\ IF initEffect.err # "none" THEN Fail_(initEffect.err)
     ELSE \E endValue \in {evaluateExpression(program, initEffect.mem, initEffect.db,
                                               Current.end)},
             stepValue \in {IF Current.hasStep
                            THEN evaluateExpression(program, initEffect.mem, initEffect.db,
                                                    Current.step)
                            ELSE Value(Rat(1), binding.dataType)} :
            ForBounded(binding, initEffect, endValue, stepValue)

\* executeFor after the initial expression is evaluated
ForStarted(binding, initialValue) ==
  IF initialValue.err # "none"
  THEN Fail_(initialValue.err) /\ UNCHANGED <<mem, dbValues, trace>>
  ELSE \E initEffect \in {writeBinding(binding, initialValue)} :
         ForInitialized(binding, initEffect)

\* executeFor up to the loop: write the initial value, evaluate end and
\* step once, reject a zero step
EnterFor ==
  /\ AtStatement("for")
  /\ UNCHANGED <<storeVars, handles, program, maxLoopIterations, stateListeners, areaListeners, lastCall, callCount>>
  /\ IF ~IsBound(program, Current.iterator)
     THEN Fail_("not bound") /\ UNCHANGED <<mem, dbValues, trace>>
     ELSE \E initialValue \in {Evaluate(Current.initial)} :
            ForStarted(Binding(program, Current.iterator), initialValue)

\* a shouldContinue that stops one value short of the end
shouldContinueBeforeEnd(frame) ==
  IF frame.stepNumeric.n > 0 THEN RatSub(frame.current, frame.endNumeric).n < 0
  ELSE RatSub(frame.current, frame.endNumeric).n > 0

\* the closure shouldContinue of executeFor
shouldContinue(frame) ==
  IF frame.stepNumeric.n > 0 THEN RatSub(frame.current, frame.endNumeric).n <= 0
  ELSE RatSub(frame.current, frame.endNumeric).n >= 0

\* executeFor, head of the loop: test, count, guard, start the body
ForTest ==
  /\ status = "running"
  /\ control = "none"
  /\ Len(stack) > 0
  /\ Top.kind = "for"
  /\ UNCHANGED <<storeVars, handles, program, maxLoopIterations, facadeVars>>
  /\ trace' = IF shouldContinue(Top) THEN trace ELSE Pushed(trace, Top.statement, Top.effects)
  /\ LoopTested(shouldContinue(Top), "FOR loop exceeded")

\* current after a write of the iterator: toNumber / toBigInt of the
\* effect's value
IteratorBinding == Binding(program, Top.statement.iterator)
IteratorEffect(w) == Effect(IteratorBinding.address, IteratorBinding.dataType, w)
IteratorNumber(value) ==
  toNumber(Value(value, DeclaredType(program, Top.statement.iterator)))

\* executeFor after the stepped iterator is written back: current is read
\* from the effect of the write
ForStepped(nextEffect) ==
  /\ mem' = nextEffect.mem
  /\ dbValues' = nextEffect.db
  /\ IF nextEffect.err # "none"
     THEN Fail_(nextEffect.err) /\ UNCHANGED trace
     ELSE /\ stack' = ReplaceTop(stack, [Top EXCEPT !.current = IteratorNumber(nextEffect.value),
                                                    !.effects = Append(@, IteratorEffect(nextEffect))])
          /\ trace' = Logged(trace, IteratorEffect(nextEffect), nextEffect, "step")
          /\ control' = "none"
          /\ UNCHANGED <<status, failure, bodyRuns>>

\* executeFor with the step applied and written back before the exit is looked at
ForResumeStepsBeforeExit ==
  /\ status = "running"
  /\ control # "none"
  /\ Len(stack) > 0
  /\ Top.kind = "for"
  /\ UNCHANGED <<storeVars, handles, program, maxLoopIterations, stateListeners, areaListeners, lastCall, callCount>>
  /\ \E nextEffect \in {writeBinding(Binding(program, Top.statement.iterator),
                                      Value(RatAdd(Top.current, Top.stepNumeric),
                                            DeclaredType(program, Top.statement.iterator)))} :
       /\ mem' = nextEffect.mem
       /\ dbValues' = nextEffect.db
       /\ IF nextEffect.err # "none" THEN Fail_(nextEffect.err) /\ UNCHANGED trace
          ELSE /\ stack' = IF control = "exit" THEN Pop(stack)
                           ELSE ReplaceTop(stack, [Top EXCEPT !.current = IteratorNumber(nextEffect.value),
                                                              !.effects = Append(@, IteratorEffect(nextEffect))])
               /\ trace' = IF control = "exit"
                           THEN Pushed(Logged(trace, IteratorEffect(nextEffect), nextEffect, "step"),
                                       Top.statement, Append(Top.effects, IteratorEffect(nextEffect)))
                           ELSE Logged(trace, IteratorEffect(nextEffect), nextEffect, "step")
               /\ control' = IF control = "exit" THEN "normal" ELSE "none"
               /\ UNCHANGED <<status, failure, bodyRuns>>

\* executeFor with a continue that goes back to the test without stepping
ForResumeContinueKeepsIterator ==
  /\ status = "running"
  /\ control # "none"
  /\ Len(stack) > 0
  /\ Top.kind = "for"
  /\ UNCHANGED <<storeVars, handles, program, maxLoopIterations, stateListeners, areaListeners, lastCall, callCount>>
  /\ IF control = "exit"
     THEN /\ stack' = Pop(stack)
          /\ control' = "normal"
          /\ trace' = Pushed(trace, Top.statement, Top.effects)
          /\ UNCHANGED <<mem, dbValues, status, failure, bodyRuns>>
     ELSE IF control = "continue"
     THEN /\ control' = "none"
          /\ UNCHANGED <<mem, dbValues, stack, status, failure, bodyRuns, trace>>
     ELSE \E nextEffect \in {writeBinding(Binding(program, Top.statement.iterator),
                                           Value(RatAdd(Top.current, Top.stepNumeric),
                                                 DeclaredType(program, Top.statement.iterator)))} :
            ForStepped(nextEffect)

\* executeFor with the iterator stepped in the local only, nothing written
\* back while the loop runs
ForResumeLocalIterator ==
  /\ status = "running"
  /\ control # "none"
  /\ Len(stack) > 0
  /\ Top.kind = "for"
  /\ UNCHANGED <<storeVars, handles, program, maxLoopIterations, stateListeners, areaListeners, lastCall, callCount>>
  /\ UNCHANGED <<mem, dbValues, status, failure, bodyRuns>>
  /\ IF control = "exit"
     THEN /\ stack' = Pop(stack)
          /\ control' = "normal"
          /\ trace' = Pushed(trace, Top.statement, Top.effects)
     ELSE /\ stack' = ReplaceTop(stack, [Top EXCEPT !.current = RatAdd(Top.current, Top.stepNumeric)])
          /\ control' = "none"
          /\ UNCHANGED trace

\* executeFor with the step added to the value the iterator holds in memory
ForResumeFromMemory ==
  /\ status = "running"
  /\ control # "none"
  /\ Len(stack) > 0
  /\ Top.kind = "for"
  /\ UNCHANGED <<storeVars, handles, program, maxLoopIterations, stateListeners, areaListeners, lastCall, callCount>>
  /\ IF control = "exit"
     THEN /\ stack' = Pop(stack)
          /\ control' = "normal"
          /\ trace' = Pushed(trace, Top.statement, Top.effects)
          /\ UNCHANGED <<mem, dbValues, status, failure, bodyRuns>>
     ELSE \E nextEffect \in {writeBinding(Binding(program, Top.statement.iterator),
                                           Value(RatAdd(ReadBinding(mem, dbValues, IteratorBinding).value,
                                                        Top.stepNumeric),
                                                 DeclaredType(program, Top.statement.iterator)))} :
            ForStepped(nextEffect)

\* executeFor, after executeBlock returned: exit breaks before the step;
\* otherwise the iterator is stepped, written back and read from the effect
ForResume ==
  /\ status = "running"
  /\ control # "none"
  /\ Len(stack) > 0
  /\ Top.kind = "for"
  /\ UNCHANGED <<storeVars, handles, program, maxLoopIterations, stateListeners, areaListeners, lastCall, callCount>>
  /\ IF control = "exit"
     THEN /\ stack' = Pop(stack)
          /\ control' = "normal"
          /\ trace' = Pushed(trace, Top.statement, Top.effects)
          /\ UNCHANGED <<mem, dbValues, status, failure, bodyRuns>>
     ELSE \E nextEffect \in {writeBinding(Binding(program, Top.statement.iterator),
                                           Value(RatAdd(Top.current, Top.stepNumeric),
                                                 DeclaredType(program, Top.statement.iterator)))} :
            ForStepped(nextEffect)

\* executeBlock returns: at the end of its statements with "normal", or at
\* once with the exit/continue a statement returned; execute() ends when the
\* program's own statement list is done
LeaveBlock ==
  /\ status = "running"
  /\ Len(stack) > 0
  /\ Top.kind = "block"
  /\ \/ control \in {"exit", "continue"}
     \/ control = "none" /\ Top.pc > Len(Top.statements)
  /\ UNCHANGED <<storeVars, handles, trace, program, maxLoopIterations, facadeVars, failure, bodyRuns>>
  /\ stack' = Pop(stack)
  /\ IF Len(stack) = 1
     THEN status' = "returned" /\ control' = "none"
     ELSE status' = status /\ control' = IF control = "none" THEN "normal" ELSE control

\* executeBlock, a statement returned "normal": go on with the next one
ResumeBlock ==
  /\ status = "running"
  /\ control = "normal"
  /\ Len(stack) > 0
  /\ Top.kind = "block"
  /\ UNCHANGED <<storeVars, handles, trace, program, maxLoopIterations, facadeVars, status, failure, bodyRuns, stack>>
  /\ control' = "none"

(***************************************************************************)
(* Programs of the scans that are checked.  They are the programs of       *)
(* tests/emulator/executeSclProgram.spec.ts and variations of them, as the *)
(* IR the builder hands to the interpreter, bound to the symbols of the    *)
(* ProgramState instance.                                                  *)
(***************************************************************************)
Decl(name, dataType) ==
  [name |-> name, dataType |-> dataType, hasInitializer |-> FALSE, initializer |-> Lit(Rat(0), "INT")]
DeclInit(name, dataType, initializer) ==
  [name |-> name, dataType |-> dataType, hasInitializer |-> TRUE, initializer |-> initializer]

ProgramVariables ==
  <<Decl("index", "INT"), Decl("total", "INT"), Decl("idx", "INT"), Decl("hits", "INT"),
    Decl("count", "INT"), Decl("flag", "BOOL")>>
ProgramSymbols ==
  [n \in {"index", "total", "idx", "hits", "count", "flag"} |-> SymbolAddr("ProgramState", n)]

Program(family, a, b, variables, statements) ==
  [family |-> family, a |-> a, b |-> b, variables |-> variables,
   statements |-> statements, symbols |-> ProgramSymbols, addressTypes |-> <<>>]

Num_(n) == Lit(Rat(n), "INT")
Increment(name, by) == Assignment(name, Binary("ADD", Var(name), by))

\* "supports EXIT inside FOR loops": leave when index >= a
ForExit(a) ==
  Program("ForExit", a, 0, ProgramVariables,
    <<Assignment("total", Num_(0)),
      For("index", Num_(0), Num_(5), FALSE, Num_(1),
          <<If(<<Branch(Comparison("GTE", Var("index"), Num_(a)), <<Exit>>)>>),
            Increment("total", Var("index"))>>)>>)

\* "supports CONTINUE inside FOR loops": skip the iteration index = a
ForContinue(a) ==
  Program("ForContinue", a, 0, ProgramVariables,
    <<Assignment("total", Num_(0)),
      For("index", Num_(0), Num_(5), FALSE, Num_(1),
          <<Increment("count", Num_(1)),
            If(<<Branch(Comparison("EQ", Var("index"), Num_(a)), <<Continue>>)>>),
            Increment("total", Var("index"))>>)>>)

\* "supports EXIT and CONTINUE inside WHILE loops"
WhileControl(a, b) ==
  Program("WhileControl", a, b, ProgramVariables,
    <<While(Comparison("LT", Var("idx"), Num_(10)),
            <<Increment("idx", Num_(1)),
              If(<<Branch(Comparison("LT", Var("idx"), Num_(a)), <<Continue>>)>>),
              Increment("hits", Num_(1)),
              If(<<Branch(Comparison("GTE", Var("hits"), Num_(b)), <<Exit>>)>>)>>)>>)

\* "enforces loop iteration guard"
Infinite ==
  Program("Infinite", 0, 0, ProgramVariables,
    <<While(Lit(TRUE, "BOOL"), <<Assignment("flag", Unary("NOT", Var("flag")))>>),
      Assignment("hits", Num_(1))>>)

\* a FOR whose end is out of reach of the cap, stepping by a
InfiniteFor(a) ==
  Program("InfiniteFor", a, 0, ProgramVariables,
    <<For("index", Num_(0), Num_(100 * a), TRUE, Num_(a), <<Increment("count", Num_(1))>>),
      Assignment("hits", Num_(1))>>)

\* loops that never end and whose every iteration is cut short by CONTINUE
InfiniteContinue ==
  Program("InfiniteContinue", 0, 0, ProgramVariables,
    <<While(Lit(TRUE, "BOOL"),
            <<Assignment("flag", Unary("NOT", Var("flag"))), Continue,
              Assignment("hits", Num_(1))>>)>>)
InfiniteForContinue ==
  Program("InfiniteForContinue", 0, 0, ProgramVariables,
    <<For("index", Num_(0), Num_(100), FALSE, Num_(1),
          <<Assignment("flag", Unary("NOT", Var("flag"))), Continue,
            Assignment("hits", Num_(1))>>)>>)

\* a WHILE inside a FOR: a outer iterations of b inner iterations each
Nested(a, b) ==
  Program("Nested", a, b, ProgramVariables,
    <<For("index", Num_(1), Num_(a), FALSE, Num_(1),
          <<Assignment("idx", Num_(0)),
            While(Comparison("LT", Var("idx"), Num_(b)),
                  <<Increment("idx", Num_(1)), Increment("count", Num_(1))>>)>>)>>)

\* EXIT and CONTINUE in a CASE inside the inner of two FOR loops
NestedExit(a, b) ==
  Program("NestedExit", a, b, ProgramVariables,
    <<For("index", Num_(0), Num_(2), FALSE, Num_(1),
          <<For("idx", Num_(0), Num_(3), FALSE, Num_(1),
                <<Case(Var("idx"),
                       <<CaseBranch(<<ValueSelector(Num_(a))>>, <<Exit>>),
                         CaseBranch(<<RangeSelector(Num_(b), Num_(b + 1))>>, <<Continue>>)>>,
                       TRUE, <<Increment("hits", Num_(1))>>),
                  Increment("count", Num_(1))>>),
            Increment("total", Num_(1))>>)>>)

\* an endless inner WHILE left by EXIT inside a WHILE that counts to a
WhileExitNested(a) ==
  Program("WhileExitNested", a, 0, ProgramVariables,
    <<While(Comparison("LT", Var("idx"), Num_(a)),
            <<Increment("idx", Num_(1)),
              While(Lit(TRUE, "BOOL"),
                    <<If(<<Branch(Var("flag"), <<Assignment("hits", Num_(99))>>),
                           ElseBranch(<<Exit>>)>>),
                      Assignment("hits", Num_(98))>>),
              Increment("count", Num_(1))>>)>>)

\* a FOR of two iterations inside a WHILE that never ends
InfiniteNested ==
  Program("InfiniteNested", 0, 0, ProgramVariables,
    <<While(Lit(TRUE, "BOOL"),
            <<For("idx", Num_(0), Num_(1), FALSE, Num_(1),
                  <<Assignment("flag", Unary("NOT", Var("flag")))>>)>>)>>)

\* a counter with a declared initial value, counted down by a WHILE
CountDown(a) ==
  Program("CountDown", a, 0,
    <<DeclInit("count", "INT", Num_(a)), Decl("hits", "INT")>>,
    <<While(Comparison("GT", Var("count"), Num_(0)),
            <<Assignment("count", Binary("SUBTRACT", Var("count"), Num_(1))),
              Increment("hits", Num_(1))>>)>>)

\* two declared initial values, the second computed from the first, and a
\* variable without one; the statements change all three
Initial(a, b) ==
  Program("Initial", a, b,
    <<DeclInit("count", "INT", Num_(a)),
      DeclInit("total", "INT", Binary("ADD", Var("count"), Num_(b))),
      Decl("hits", "INT")>>,
    <<Increment("hits", Var("total")), Increment("count", Num_(1)),
      Increment("total", Var("hits"))>>)

\* the same program run with options.symbols lacking the entry of one variable
Unbound(prog, name) ==
  [prog EXCEPT !.family = "Unbound",
               !.symbols = [n \in (DOMAIN prog.symbols) \ {name} |-> prog.symbols[n]]]

\* a well-formed, aligned, in-range absolute address of the flags area for
\* each type (a LINT has no size letter of its own and is addressed in bit
\* form)
AbsoluteOf(type) ==
  CASE type = "BOOL"  -> BitAddr("M", 0, 3)
    [] type = "BYTE"  -> ByteAddr("M", "B", 1)
    [] type = "SINT"  -> ByteAddr("M", "B", 2)
    [] type = "WORD"  -> ByteAddr("M", "W", 2)
    [] type = "INT"   -> ByteAddr("M", "W", 4)
    [] type = "DWORD" -> ByteAddr("M", "D", 4)
    [] type = "DINT"  -> ByteAddr("M", "D", 8)
    [] type = "LINT"  -> BitAddr("M", 8, 0)
    [] type = "TIME"  -> ByteAddr("M", "D", 12)
    [] type = "DATE"  -> ByteAddr("M", "W", 6)
    [] type = "TOD"   -> ByteAddr("M", "D", 0)

\* an assignment of the REAL literal n/d to a variable of the given type
\* bound to an absolute address of the flags area
Coerce(type, n, d) ==
  [Program("Coerce", n, d,
     <<Decl("dest", type), Decl("hits", "INT"), Decl("total", "INT")>>,
     <<Assignment("hits", Num_(1)), Assignment("dest", Lit(Ratio(n, d), "REAL")),
       Assignment("total", Num_(1))>>)
   EXCEPT !.symbols = [name \in {"dest", "hits", "total"} |->
                         IF name = "dest" THEN AbsoluteOf(type)
                         ELSE SymbolAddr("ProgramState", name)]]

\* direct addresses with a type override in options.addressTypes: MW2 and
\* MW4 as INT, MD8 as DINT.  Shape 0 assigns a to MW2, shape 1 reads MW4
\* after a was stored there as an INT, shape 2 assigns a to MD8.
Direct(a, shape) ==
  [Program("Direct", a, shape,
     <<Decl("count", "INT"), Decl("hits", "INT")>>,
     CASE shape = 0 ->
            <<AddressAssignment(buildIdentifier(ByteAddr("M", "W", 2)), Num_(a)),
              Assignment("hits", Num_(1))>>
       [] shape = 1 ->
            <<Assignment("count", Num_(a)),
              Assignment("hits", buildIdentifier(ByteAddr("M", "W", 4)))>>
       [] shape = 2 ->
            <<AddressAssignment(buildIdentifier(ByteAddr("M", "D", 8)), Num_(a)),
              Assignment("hits", Num_(1))>>)
   EXCEPT !.symbols = [name \in {"count", "hits"} |->
                         IF name = "count" THEN ByteAddr("M", "W", 4)
                         ELSE SymbolAddr("ProgramState", name)],
          !.addressTypes = [address \in {ByteAddr("M", "W", 2), ByteAddr("M", "W", 4),
                                         ByteAddr("M", "D", 8)} |->
                              IF address.size = "D" THEN "DINT" ELSE "INT"]]
Directs == {Direct(a, shape) : a \in {-1, 5}, shape \in 0..2}

\* values with a fractional part around zero, and the whole and fractional
\* values next to the ends of the type's range
Fractions == {<<-3, 2>>, <<-1, 2>>, <<1, 2>>, <<7, 2>>, <<-7, 4>>, <<5, 1>>}
Ends(type) ==
  CASE type = "BYTE" -> {<<255, 1>>, <<511, 2>>, <<256, 1>>, <<300, 1>>, <<-1, 1>>}
    [] type = "SINT" -> {<<127, 1>>, <<255, 2>>, <<128, 1>>, <<-128, 1>>, <<-257, 2>>, <<-129, 1>>}
    [] type \in {"WORD", "DATE"} -> {<<65535, 1>>, <<131071, 2>>, <<65536, 1>>, <<-1, 1>>}
    [] type = "INT" -> {<<32767, 1>>, <<65535, 2>>, <<32768, 1>>, <<40000, 1>>,
                        <<-32768, 1>>, <<-65537, 2>>, <<-32769, 1>>}
    [] type \in {"DWORD", "TOD"} -> {<<-1, 1>>, <<-2, 1>>}
    [] type = "DINT" -> {<<-65537, 2>>, <<65536, 1>>}
Coercions ==
  {Coerce(type, v[1], v[2]) : type \in {"BYTE"}, v \in Fractions \cup Ends("BYTE")}
  \cup {Coerce(type, v[1], v[2]) : type \in {"SINT"}, v \in Fractions \cup Ends("SINT")}
  \cup {Coerce(type, v[1], v[2]) : type \in {"WORD", "DATE"}, v \in Fractions \cup Ends("WORD")}
  \cup {Coerce(type, v[1], v[2]) : type \in {"INT"}, v \in Fractions \cup Ends("INT")}
  \cup {Coerce(type, v[1], v[2]) : type \in {"DWORD", "TOD"}, v \in Fractions \cup Ends("TOD")}
  \cup {Coerce(type, v[1], v[2]) : type \in {"DINT"}, v \in Fractions \cup Ends("DINT")}

\* dest := left / divisor, the left operand a literal of type lt with
\* value n, the divisor a variable of type rt with initial value d
Divide(lt, rt, n, d) ==
  [Program("Divide", n, d,
     <<Decl("dest", IF "LINT" \in {lt, rt} THEN "LINT" ELSE "INT"),
       DeclInit("divisor", rt, Lit(Rat(d), IF rt = "LINT" THEN "LINT" ELSE "INT")),
       Decl("hits", "INT"), Decl("total", "INT")>>,
     <<Assignment("hits", Num_(1)),
       Assignment("dest", Binary("DIVIDE", Lit(Rat(n), lt), Var("divisor"))),
       Assignment("total", Num_(1))>>)
   EXCEPT !.symbols = [name \in {"dest", "divisor", "hits", "total"} |->
                         IF name = "dest"
                         THEN SymbolAddr("IntegrationTests",
                                         IF "LINT" \in {lt, rt} THEN "lintValue" ELSE "intValue")
                         ELSE IF name = "divisor" THEN AbsoluteOf(rt)
                         ELSE SymbolAddr("ProgramState", name)]]
Divisions ==
  {Divide(lt, rt, n, d) : lt \in {"INT", "LINT", "REAL"},
                          rt \in {"SINT", "INT", "DINT", "LINT", "TIME"},
                          n \in {-7, 0, 6}, d \in {-2, 0, 1, 4}}
  \cup {Divide(lt, rt, n, d) : lt \in {"INT", "LINT", "REAL"},
                               rt \in {"BYTE", "WORD", "DWORD", "DATE", "TOD"},
                               n \in {-7, 0, 6}, d \in {0, 1, 4}}

\* "executes FOR loops with explicit step increments": the sum of the
\* values the iterator takes from a to b by s, and their number; hasStep
\* FALSE is the FOR without BY
ForStep(a, b, hasStep, step) ==
  Program("ForStep", a, b, ProgramVariables,
    <<Assignment("total", Num_(0)),
      For("index", Num_(a), Num_(b), hasStep, Num_(step),
          <<Increment("total", Var("index")), Increment("count", Num_(1))>>)>>)

\* "supports CASE selector ranges": CASE idx OF 0..5: ...; 6, 8..10: ...;
\* with idx = d.  Every block counts itself in count and leaves its number
\* in hits.  Variant 0 is the program of the test, variant 1 has no ELSE,
\* variant 2 has a third branch 3..7 that overlaps the first.
CaseBlock(n) == <<Assignment("hits", Num_(n)), Increment("count", Num_(1))>>
CaseRange(d, variant) ==
  Program("CaseRange", d, variant, ProgramVariables,
    <<Assignment("idx", Num_(d)),
      Case(Var("idx"),
           <<CaseBranch(<<RangeSelector(Num_(0), Num_(5))>>, CaseBlock(1)),
             CaseBranch(<<ValueSelector(Num_(6)), RangeSelector(Num_(8), Num_(10))>>,
                        CaseBlock(2))>>
             \o (IF variant = 2
                 THEN <<CaseBranch(<<RangeSelector(Num_(3), Num_(7))>>, CaseBlock(4))>>
                 ELSE <<>>),
           variant # 1, CaseBlock(3)),
      Increment("total", Num_(1))>>)

\* "throws a runtime error when EXIT is used outside a loop": an EXIT
\* (a = 0) or CONTINUE (a = 1) outside every loop: as a statement of the
\* program (b = 0), in an IF branch (1), in the ELSE of a CASE (2), after a
\* FOR that has ended (3), in an IF inside a CASE branch (4)
Jump(a) == IF a = 0 THEN Exit ELSE Continue
Misplaced(a, b) ==
  Program("Misplaced", a, b, ProgramVariables,
    <<Assignment("hits", Num_(1)),
      CASE b = 0 -> Jump(a)
        [] b = 1 -> If(<<Branch(Comparison("EQ", Var("hits"), Num_(1)), <<Jump(a)>>)>>)
        [] b = 2 -> Case(Var("hits"), <<CaseBranch(<<ValueSelector(Num_(0))>>, <<>>)>>,
                         TRUE, <<Jump(a)>>)
        [] b = 3 -> For("index", Num_(0), Num_(1), FALSE, Num_(1), <<Increment("count", Num_(1))>>)
        [] b = 4 -> Case(Var("hits"),
                         <<CaseBranch(<<ValueSelector(Num_(1))>>,
                                      <<If(<<Branch(Lit(FALSE, "BOOL"), <<>>),
                                             ElseBranch(<<Jump(a)>>)>>)>>)>>,
                         FALSE, <<>>),
      IF b = 3 THEN Jump(a) ELSE Assignment("total", Num_(1)),
      Assignment("total", Num_(2))>>)

Misplacements == {Misplaced(a, b) : a \in 0..1, b \in 0..4}

CaseRanges == {CaseRange(d, variant) : d \in -1..11, variant \in 0..2}

ForSteps ==
  {ForStep(a, b, TRUE, step) : a \in {0, 1, 5}, b \in {0, 4}, step \in {-2, -1, 0, 1, 2}}
  \cup {ForStep(a, b, FALSE, 1) : a \in {0, 1, 5}, b \in {0, 4}}

Programs ==
  ForSteps \cup CaseRanges \cup Misplacements \cup Coercions \cup Divisions \cup {ForExit(a) : a \in 0..6} \cup {ForContinue(a) : a \in 0..5}
  \cup {WhileControl(a, b) : a \in {0, 4}, b \in {2, 20}}
  \cup {Infinite, InfiniteContinue, InfiniteForContinue, InfiniteNested}
  \cup {InfiniteFor(a) : a \in {1, 2}}
  \cup {Nested(a, b) : a \in 1..3, b \in 1..3}
  \cup {NestedExit(a, b) : a \in {2, 9}, b \in {0, 9}}
  \cup {WhileExitNested(a) : a \in 1..3}
  \cup {CountDown(a) : a \in 1..3}
  \cup Directs

(***************************************************************************)
(* One scan: executeSclProgram on a fresh state with no listeners.         *)
(***************************************************************************)
\* no symbol store is being constructed
NoConfig == [types |-> <<>>, instances |-> <<>>]
NotBuilt == [built |-> FALSE]

ZeroedMemory == [area \in ConfiguredAreas |-> [k \in 0..(AreaSize(area) - 1) |-> 0]]
DefaultValues == [n \in SymbolNames |-> defaultForType(SymbolTable[n].dataType)]
NoListeners == [k \in RegionKeys |-> <<>>]
\* tracing off and nothing traced; no unsubscribe closure handed out
NoTrace == [enabled |-> FALSE, entries |-> <<>>, log |-> <<>>]
NoHandles == [sets |-> <<>>, attached |-> [k \in RegionKeys |-> 0], issued |-> <<>>]
NoCall == [op |-> "none"]

Init ==
  /\ mem = ZeroedMemory
  /\ dbValues = DefaultValues
  /\ stateListeners = <<>>
  /\ areaListeners = NoListeners
  /\ lastCall = NoCall
  /\ callCount = 0
  /\ program \in Programs
  /\ maxLoopIterations \in 0..MaxLoopCap
  /\ stack = <<>>
  /\ control = "none"
  /\ status = "idle"
  /\ failure = "none"
  /\ bodyRuns = 0
  /\ trace = NoTrace
  /\ handles = NoHandles
  /\ config = NoConfig
  /\ store = NotBuilt

Next ==
  \/ Execute
  \/ ExecuteAssignment
  \/ ExecuteAddressAssignment
  \/ ExecuteIf
  \/ ExecuteCase
  \/ ExecuteExit
  \/ ExecuteContinue
  \/ EnterWhile
  \/ WhileTest
  \/ WhileResume
  \/ EnterFor
  \/ ForTest
  \/ ForResume
  \/ LeaveBlock
  \/ ResumeBlock

Spec == Init /\ [][Next]_vars

\* the interpreter runs to completion: execute() is one synchronous call
FairSpec == Spec /\ WF_vars(Next)

Finished == status \in {"returned", "failed"}

(***************************************************************************)
(* Repeated scans: executeSclProgram called again with the same PlcState,  *)
(* on which the embedder has subscribed a state-wide and a region listener.*)
(* callCount counts the scans already finished.                            *)
(***************************************************************************)
MaxScans == 2

Initials == {Initial(a, b) : a \in 1..2, b \in 0..2}
Unbounds == {Unbound(prog, name) : prog \in Initials, name \in {"count", "total", "hits"}}
ScanPrograms == Programs \cup Initials \cup Unbounds

\* the programs the embedder may run next: the same one, or the same one
\* with a binding left out
NextScans(prog) ==
  IF prog.family = "Initial"
  THEN {prog} \cup {Unbound(prog, name) : name \in {"count", "total", "hits"}}
  ELSE {prog}

ScanInit ==
  /\ mem = ZeroedMemory
  /\ dbValues = DefaultValues
  /\ stateListeners = <<"watch">>
  /\ areaListeners = [NoListeners EXCEPT ![regionKey(DbRegion("ProgramState"))] = <<"audit">>]
  /\ lastCall = NoCall
  /\ callCount = 0
  /\ program \in ScanPrograms
  /\ maxLoopIterations \in 0..MaxLoopCap
  /\ stack = <<>>
  /\ control = "none"
  /\ status = "idle"
  /\ failure = "none"
  /\ bodyRuns = 0
  /\ trace = NoTrace
  /\ handles = NoHandles
  /\ config = NoConfig
  /\ store = NotBuilt

\* executeProgram: a new Interpreter on the state the last scan left
Rescan(next) ==
  /\ Finished
  /\ callCount + 1 < MaxScans
  /\ callCount' = callCount + 1
  /\ program' = next
  /\ stack' = <<>>
  /\ control' = "none"
  /\ status' = "idle"
  /\ failure' = "none"
  /\ bodyRuns' = 0
  /\ trace' = [trace EXCEPT !.entries = <<>>, !.log = <<>>]
  /\ UNCHANGED <<mem, dbValues, stateListeners, areaListeners, lastCall, maxLoopIterations,
                 storeVars, handles>>

ScanNext ==
  \/ Next
  \/ \E next \in NextScans(program) : Rescan(next)

ScanSpec == ScanInit /\ [][ScanNext]_vars


(***************************************************************************)
(* A scan with options.trace on or off, on a state on which the embedder   *)
(* has subscribed a state-wide and a region listener.                      *)
(***************************************************************************)
\* FOR index := 1 TO total BY idx with total = 4 and idx = a, whose body
\* counts its runs and then assigns to the iterator, to the variable the
\* end was read from or to the variable the step was read from
Meddling ==
  <<<<>>, <<Assignment("index", Num_(0))>>, <<Assignment("index", Num_(9))>>,
    <<Assignment("total", Num_(0))>>, <<Assignment("idx", Num_(4))>>>>
ForMeddle(a, b) ==
  Program("ForMeddle", a, b, ProgramVariables,
    <<Assignment("total", Num_(4)), Assignment("idx", Num_(a)),
      For("index", Num_(1), Var("total"), TRUE, Var("idx"),
          <<Increment("count", Num_(1))>> \o Meddling[b])>>)

\* the programs of a single scan, a countdown that the cap cuts short, and
\* the loops whose body assigns to what the loop was set up from
TracePrograms ==
  Programs \cup {CountDown(MaxLoopCap + 2)} \cup {ForMeddle(a, b) : a \in 1..2, b \in 1..5}

TraceInit ==
  /\ mem = ZeroedMemory
  /\ dbValues = DefaultValues
  /\ stateListeners = <<"watch">>
  /\ areaListeners = [NoListeners EXCEPT ![regionKey(DbRegion("ProgramState"))] = <<"audit">>]
  /\ lastCall = NoCall
  /\ callCount = 0
  /\ program \in TracePrograms
  /\ maxLoopIterations = MaxLoopCap
  /\ stack = <<>>
  /\ control = "none"
  /\ status = "idle"
  /\ failure = "none"
  /\ bodyRuns = 0
  /\ trace \in {[NoTrace EXCEPT !.enabled = enabled] : enabled \in BOOLEAN}
  /\ handles = NoHandles
  /\ config = NoConfig
  /\ store = NotBuilt

TraceSpec == TraceInit /\ [][Next]_vars

\* Interpreter.result()
ExecutionResult ==
  IF ~trace.enabled THEN [snapshot |-> [mem |-> mem, dbSymbols |-> dbValues]]
  ELSE [snapshot |-> [mem |-> mem, dbSymbols |-> dbValues], trace |-> trace.entries]


(***************************************************************************)
(* Calls on the facade: an embedder subscribing listeners and making typed *)
(* writes and reads against one PlcStateImpl.  lastCall records the call   *)
(* made last, what it returned or threw, the listener calls it made and    *)
(* the memory it found.                                                    *)
(***************************************************************************)
\* 2^(8w) - 1, 2^(8w-1) - 1, -2^(8w-1) and 2^63
MaxUnsigned(w) == [i \in 1..NumLen |-> IF i <= w THEN 255 ELSE 0]
MaxSigned(w) == [i \in 1..NumLen |-> IF i < w THEN 255 ELSE IF i = w THEN 127 ELSE 0]
MinSigned(w) == [i \in 1..NumLen |-> IF i < w THEN 0 ELSE IF i = w THEN 128 ELSE 255]
TwoTo63 == ByteAt(7, 128)

\* the values handed to the typed writes
Values(type) ==
  CASE type = "BOOL"  -> {TRUE, FALSE}
    [] type = "BYTE"  -> {FromInt(1), MaxUnsigned(1), FromInt(256)}
    [] type = "SINT"  -> {FromInt(-1), MaxSigned(1)}
    [] type = "WORD"  -> {FromInt(1), MaxUnsigned(2)}
    [] type = "INT"   -> {FromInt(-1), MaxSigned(2), FromInt(32768)}
    [] type = "DWORD" -> {FromInt(1), MaxUnsigned(4)}
    [] type = "DINT"  -> {FromInt(-1), MinSigned(4)}
    [] type = "LINT"  -> {FromInt(-1), MaxSigned(8), TwoTo63}
    [] type = "TIME"  -> {FromInt(-1), FromInt(1), MaxSigned(4)}
    [] type = "DATE"  -> {FromInt(1), MaxUnsigned(2)}
    [] type = "TOD"   -> {FromInt(1), MaxUnsigned(4)}

\* the symbol of each type in the IntegrationTests instance
SymbolOf(type) ==
  SymbolAddr("IntegrationTests",
             CHOOSE n \in SymbolNames :
               SymbolTable[n].instance = "IntegrationTests" /\ SymbolTable[n].dataType = type)

\* addresses that are malformed, misaligned, out of the buffer, in an area
\* that is not configured, or name no symbol of the type
OtherAddresses(type) ==
  CASE type = "BOOL" ->
         {BitAddr("M", 0, 8), BitAddr("M", 0, 10), BitAddr("M", FlagsSize, 0),
          BitAddr("I", InputsSize - 1, 7), BitAddr("Q", 0, 0),
          SymbolAddr("IntegrationTests", "intValue"), SymbolAddr("IntegrationTests", "missing"),
          SymbolAddr("Nowhere", "boolValue")}
    [] type = "BYTE" -> {ByteAddr("M", "B", FlagsSize), BitAddr("M", 1, 1), ByteAddr("I", "B", 0)}
    [] type = "WORD" ->
         {ByteAddr("M", "W", 1), ByteAddr("M", "W", FlagsSize), ByteAddr("M", "B", 0),
          ByteAddr("I", "W", InputsSize - 1)}
    [] type = "DWORD" -> {ByteAddr("M", "D", 2), ByteAddr("I", "D", InputsSize)}
    [] type = "LINT" -> {ByteAddr("M", "D", 8), BitAddr("M", 4, 0)}
    [] OTHER -> {}
Addresses(type) == {AbsoluteOf(type), SymbolOf(type)} \cup OtherAddresses(type)

\* the regions listeners are subscribed to
SubscribedRegions == {AreaRegion("M"), DbRegion("IntegrationTests")}

\* Set.add: a listener already in the set keeps its place
AddListener(listeners, l) ==
  IF \E i \in 1..Len(listeners) : listeners[i] = l THEN listeners ELSE Append(listeners, l)

\* onStateChange
OnStateChange(l) ==
  /\ callCount < MaxCalls
  /\ stateListeners' = AddListener(stateListeners, l)
  /\ lastCall' = [op |-> "subscribe", listener |-> l, scope |-> "state"]
  /\ callCount' = callCount + 1
  /\ UNCHANGED <<mem, dbValues, areaListeners, interpVars, handles, storeVars>>

\* onAreaChange
OnAreaChange(region, l) ==
  /\ callCount < MaxCalls
  /\ areaListeners' = [areaListeners EXCEPT ![regionKey(region)] = AddListener(@, l)]
  /\ lastCall' = [op |-> "subscribe", listener |-> l, scope |-> regionKey(region)]
  /\ callCount' = callCount + 1
  /\ UNCHANGED <<mem, dbValues, stateListeners, interpVars, handles, storeVars>>

\* writeBool ... writeTod called by the embedder; what a throwing call has
\* already stored stays stored
WriteCall(type, address, value) ==
  /\ callCount < MaxCalls
  /\ \E r \in {facadeWrite(stateListeners, areaListeners, mem, dbValues, address, type, value)} :
       /\ mem' = r.mem
       /\ dbValues' = r.db
       /\ lastCall' = [op |-> "write", type |-> type, address |-> address, value |-> value,
                       ok |-> r.ok, code |-> r.code, thrown |-> r.thrown, calls |-> r.calls,
                       memBefore |-> mem, dbBefore |-> dbValues]
  /\ callCount' = callCount + 1
  /\ UNCHANGED <<stateListeners, areaListeners, interpVars, handles, storeVars>>

\* readBool ... readTod called by the embedder
ReadCall(type, address) ==
  /\ callCount < MaxCalls
  /\ \E r \in {facadeRead(mem, dbValues, address, type)} :
       lastCall' = [op |-> "read", type |-> type, address |-> address, value |-> r.value,
                    ok |-> r.ok, code |-> r.code, thrown |-> r.thrown]
  /\ callCount' = callCount + 1
  /\ UNCHANGED <<mem, dbValues, stateListeners, areaListeners, interpVars, handles, storeVars>>

\* createPlcState: zeroed areas, symbols at their defaults, no listeners; no
\* scan is running against the state
FacadeInit ==
  /\ mem = ZeroedMemory
  /\ dbValues = DefaultValues
  /\ stateListeners = <<>>
  /\ areaListeners = NoListeners
  /\ lastCall = NoCall
  /\ callCount = 0
  /\ program = Infinite
  /\ maxLoopIterations = 0
  /\ stack = <<>>
  /\ control = "none"
  /\ status = "detached"
  /\ failure = "none"
  /\ bodyRuns = 0
  /\ trace = NoTrace
  /\ handles = NoHandles
  /\ config = NoConfig
  /\ store = NotBuilt

FacadeNext ==
  \/ \E l \in Listeners : OnStateChange(l)
  \/ \E l \in Listeners, region \in SubscribedRegions : OnAreaChange(region, l)
  \/ \E type \in ScalarTypes : \E address \in Addresses(type), value \in Values(type) :
       WriteCall(type, address, value)
  \/ \E type \in ScalarTypes : \E address \in Addresses(type) : ReadCall(type, address)

FacadeSpec == FacadeInit /\ [][FacadeNext]_vars

(***************************************************************************)
(* Properties of a scan.                                                   *)
(***************************************************************************)
\* the value a scan's variable holds in the symbol store
Val(name) == ToInt(dbValues[name])
LoopFrames == {i \in 1..Len(stack) : stack[i].kind \in {"while", "for"}}
GuardFailure ==
  status = "failed" /\ failure \in {"WHILE loop exceeded", "FOR loop exceeded"}
\* programs whose loop test stays true for more iterations than any cap explored
Unending ==
  {"Infinite", "InfiniteContinue", "InfiniteNested", "InfiniteFor", "InfiniteForContinue"}

\* C1: a loop whose continuation test stays true ends the scan in the
\* loop-guard failure, and when a loop raises that failure its body has run
\* exactly maxLoopIterations times and its test was made maxLoopIterations + 1
\* times; no loop ever makes more tests than that.
C1_GuardAfterExactlyN ==
  /\ \A i \in LoopFrames : stack[i].tests <= maxLoopIterations + 1
  /\ GuardFailure =>
       /\ Top.kind \in {"while", "for"}
       /\ Top.runs = maxLoopIterations
       /\ Top.tests = maxLoopIterations + 1
  /\ program.family \in Unending => status # "returned"
  /\ program.family \in Unending /\ status = "failed" => GuardFailure

\* C1 witness: an endless WHILE stopped by the guard after three bodies
C1_Witness ==
  /\ program.family = "Infinite"
  /\ maxLoopIterations = 3
  /\ GuardFailure
  /\ Top.runs = 3

\* C2: every scan terminates: it returns or it fails.
C2_Terminates == <>Finished

\* C2 witness: the scan of an endless loop around a FOR has ended
C2_Witness ==
  /\ program.family = "InfiniteNested"
  /\ maxLoopIterations = MaxLoopCap
  /\ Finished

\* C3 as stated: the bodies run by all loops of one scan together never
\* exceed maxLoopIterations.
C3_PerScanCap == bodyRuns <= maxLoopIterations

\* C3: the cap holds for each execution of a loop statement separately: no
\* single execution of a WHILE or FOR runs its body more than
\* maxLoopIterations times (the count starts at 0 whenever a loop is entered).
C3_PerLoopCap ==
  \A i \in LoopFrames : stack[i].runs <= maxLoopIterations /\ stack[i].runs <= bodyRuns

\* C3 witness: a scan returned although its loops together ran more bodies
\* than the cap
C3_Witness ==
  /\ status = "returned"
  /\ program.family = "Nested"
  /\ bodyRuns > maxLoopIterations


\* a loop is about to take up the exit / the continue its body returned
ExitReachesLoop ==
  status = "running" /\ control = "exit" /\ Len(stack) > 0 /\ Top.kind \in {"while", "for"}
ContinueReachesLoop ==
  status = "running" /\ control = "continue" /\ Len(stack) > 0 /\ Top.kind \in {"while", "for"}

\* EXIT: the step that takes it up ends exactly the innermost loop, writes
\* nothing, and hands "normal" to whatever encloses the loop
ExitStep ==
  ExitReachesLoop =>
    /\ Len(stack') = Len(stack) - 1
    /\ \A i \in 1..(Len(stack) - 1) : stack'[i].kind = stack[i].kind
    /\ control' = "normal"
    /\ status' = "running"
    /\ mem' = mem
    /\ dbValues' = dbValues

\* what the scans of the EXIT programs leave behind
ExitResults ==
  status = "returned" =>
    /\ program.family = "ForExit" /\ program.a <= 5 =>
         /\ Val("index") = program.a
         /\ Val("total") = (program.a * (program.a - 1)) \div 2
    /\ program.family = "NestedExit" /\ program.a = 2 =>
         /\ Val("idx") = 2
         /\ Val("index") = 3
         /\ Val("total") = 3
    /\ program.family = "WhileExitNested" =>
         /\ Val("idx") = program.a
         /\ Val("count") = program.a
         /\ Val("hits") = 0

\* C9: EXIT ends only the innermost enclosing loop; a FOR iterator keeps the
\* value it had when EXIT ran (no step is applied or written), and an outer
\* loop goes on iterating; the example ends with index = 3 and total = 3.
C9_ExitInnermostOnly == [](ExitResults) /\ [][ExitStep]_vars

\* C9 witness: the scan of the example has returned with index = 3, total = 3
C9_Witness ==
  /\ status = "returned"
  /\ program.family = "ForExit"
  /\ program.a = 3
  /\ Val("index") = 3
  /\ Val("total") = 3

\* CONTINUE: the step that takes it up stays in the loop; a WHILE goes back
\* to its test with nothing written, a FOR steps its iterator and writes it
ContinueStep ==
  ContinueReachesLoop =>
    /\ Len(stack') = Len(stack)
    /\ Top.kind = "while" => control' = "none" /\ mem' = mem /\ dbValues' = dbValues
    /\ Top.kind = "for" /\ status' = "running" =>
         /\ control' = "none"
         /\ stack'[Len(stack)].current = RatAdd(Top.current, Top.stepNumeric)
         /\ Rat(ToInt(dbValues'[Top.statement.iterator])) = RatAdd(Top.current, Top.stepNumeric)

\* what the scans of the CONTINUE programs leave behind; in the endless
\* ones every iteration is cut short and still counted
ContinueResults ==
  /\ status = "returned" /\ program.family = "ForContinue" =>
       /\ Val("index") = 6
       /\ Val("count") = 6
       /\ Val("total") = 15 - program.a
  /\ status = "returned" /\ program.family = "WhileControl" /\ program.b = 2 =>
       /\ Val("hits") = 2
       /\ Val("idx") = IF program.a = 4 THEN 5 ELSE 2
  /\ GuardFailure /\ program.family \in {"InfiniteContinue", "InfiniteForContinue"} =>
       /\ Top.runs = maxLoopIterations
       /\ Val("hits") = 0

\* C10: CONTINUE skips the rest of the current iteration of the innermost
\* loop only; a FOR still applies its step and writes the iterator back, a
\* WHILE re-evaluates its condition, and the skipped iteration counts toward
\* the cap.
C10_ContinueInnermostOnly == [](ContinueResults) /\ [][ContinueStep]_vars

\* C10 witness: the FOR that skips index = 2 has returned with total = 13
C10_Witness ==
  /\ status = "returned"
  /\ program.family = "ForContinue"
  /\ program.a = 2
  /\ Val("total") = 13
  /\ Val("index") = 6


(***************************************************************************)
(* Properties of a facade call (FacadeSpec).                               *)
(***************************************************************************)
Written == lastCall.op = "write"

\* what a read of the written address returned before the write
StoredBefore ==
  facadeRead(lastCall.memBefore, lastCall.dbBefore, lastCall.address, lastCall.type)
\* what a read of the written address returns after the write
StoredAfter == facadeRead(mem, dbValues, lastCall.address, lastCall.type)

\* the write handed over the value that was stored already
RewritesStored == Written /\ StoredBefore.ok /\ StoredBefore.value = lastCall.value

\* no byte of any area and no symbol value differs from before the call
MemoryUntouched == mem = lastCall.memBefore /\ dbValues = lastCall.dbBefore

\* the result of OptimizedDbStore.write for the written symbol
StoreResult ==
  storeWrite(lastCall.dbBefore, lastCall.address, lastCall.type, lastCall.value)

WritesConfiguredArea ==
  Written /\ lastCall.address.kind # "symbol" /\ lastCall.address.area \in ConfiguredAreas
OutsideBuffer ==
  lastCall.address.byteOffset + TypeByteLength(lastCall.type) > AreaSize(lastCall.address.area)
BadBitOffset == lastCall.address.kind = "bit" /\ lastCall.address.bitOffset \notin 0..7
Misaligned == lastCall.address.byteOffset % TypeByteLength(lastCall.type) # 0

\* the error codes that name a rule the write breaks
MatchingCodes ==
  (IF OutsideBuffer THEN {OutOfRange} ELSE {})
    \cup (IF BadBitOffset \/ Misaligned THEN {AlignmentError} ELSE {})

ListenerThrew ==
  /\ Written
  /\ lastCall.calls # <<>>
  /\ ListenerThrows(lastCall.calls[Len(lastCall.calls)].listener) # "none"

\* C6: if a change listener throws while being notified of a write, whatever
\* the kind of error and whichever region or symbol was written, that same
\* error leaves the write call; it is not turned into a returned result.
C6_ListenerFailurePropagates ==
  ListenerThrew =>
    lastCall.thrown = ListenerThrows(lastCall.calls[Len(lastCall.calls)].listener)

\* the region a successful write wrote to
WrittenRegion ==
  IF lastCall.address.kind = "symbol"
  THEN DbRegion(lastCall.address.instance)
  ELSE AreaRegion(lastCall.address.area)

\* number of calls the write made to listener l in the given scope
CallsTo(l, scope) ==
  Cardinality({i \in 1..Len(lastCall.calls) :
                 lastCall.calls[i].listener = l /\ lastCall.calls[i].scope = scope})

Subscribed(listeners, l) == \E i \in 1..Len(listeners) : listeners[i] = l

ChangingWrite == Written /\ lastCall.ok /\ lastCall.thrown = "none" /\ ~MemoryUntouched

\* C7: for every successful write that changes memory, each subscribed
\* state-wide listener and each listener subscribed to the written region is
\* invoked exactly once (and nobody else is), with the diff of the written
\* region, after memory holds the new value and before the call returns.
C7_EachListenerOnce ==
  ChangingWrite =>
    /\ \A l \in Listeners :
         /\ CallsTo(l, "state") = IF Subscribed(stateListeners, l) THEN 1 ELSE 0
         /\ CallsTo(l, "area") =
              IF Subscribed(areaListeners[regionKey(WrittenRegion)], l) THEN 1 ELSE 0
    /\ \A i \in 1..Len(lastCall.calls) :
         /\ lastCall.calls[i].region = regionKey(WrittenRegion)
         /\ lastCall.calls[i].diff # <<>>
         /\ lastCall.calls[i].seesCurrent

\* a changing write with a state-wide listener and a listener of the
\* written region subscribed: both were called
C7_Witness ==
  /\ ChangingWrite
  /\ stateListeners # <<>>
  /\ areaListeners[regionKey(WrittenRegion)] # <<>>
  /\ Len(lastCall.calls) = 2

\* C8: for each integer-like scalar type and every value the typed write
\* accepts, a write to a valid absolute address or to a symbol of that type
\* succeeds and a following read of the same address returns that value.
C8_RoundTrip ==
  (/\ Written
   /\ FacadeAccepts(lastCall.type, lastCall.value)
   /\ lastCall.address \in {AbsoluteOf(lastCall.type), SymbolOf(lastCall.type)}
   /\ \A i \in 1..Len(lastCall.calls) : ListenerThrows(lastCall.calls[i].listener) = "none") =>
    /\ lastCall.ok
    /\ StoredAfter.ok
    /\ StoredAfter.value = lastCall.value


(***************************************************************************)
(* Properties of FOR, CASE and misplaced EXIT/CONTINUE (Spec).             *)
(***************************************************************************)
\* the FOR statement of a ForStep program, its bounds and its step
StepLoop == program.statements[2]
StepOf == IF StepLoop.hasStep THEN StepLoop.step.value.n ELSE 1
\* how many of a, a+s, a+2s, ... pass the test against b
Passing(a, b, step) ==
  IF step > 0 THEN (IF a > b THEN 0 ELSE (b - a) \div step + 1)
  ELSE (IF a < b THEN 0 ELSE (a - b) \div (0 - step) + 1)
PassingHere == Passing(program.a, program.b, StepOf)

\* C11: a FOR from a to b by a non-zero step s (1 when BY is left out) runs
\* the body once for each of a, a+s, a+2s, ... while the value is <= b
\* (s > 0) or >= b (s < 0); when it completes, the iterator holds the first
\* value of the progression that fails the test (0 TO 4 BY 2 ends with
\* i = 6, total = 6); when the progression is longer than the loop cap the
\* scan fails at the cap; a zero step fails the scan before any body runs.
C11_ForProgression ==
  (program.family = "ForStep" /\ Finished) =>
    IF StepOf = 0
    THEN status = "failed" /\ failure = "FOR loop step cannot be zero" /\ bodyRuns = 0
    ELSE IF PassingHere > maxLoopIterations
    THEN status = "failed" /\ failure = "FOR loop exceeded" /\ bodyRuns = maxLoopIterations
    ELSE /\ status = "returned"
         /\ bodyRuns = PassingHere
         /\ Val("count") = PassingHere
         /\ Val("index") = program.a + PassingHere * StepOf
         /\ 2 * Val("total") =
              2 * PassingHere * program.a + StepOf * PassingHere * (PassingHere - 1)

\* FOR i := 0 TO 4 BY 2 has returned with i = 6 and total = 6
C11_Witness ==
  /\ program.family = "ForStep"
  /\ program.a = 0 /\ program.b = 4 /\ StepOf = 2
  /\ status = "returned"
  /\ Val("index") = 6
  /\ Val("total") = 6


\* the number of the block a CaseRange program with discriminant d has to
\* run, 0 when it has to run none
BlockFor(d, variant) ==
  IF d \in 0..5 THEN 1
  ELSE IF d = 6 \/ d \in 8..10 THEN 2
  ELSE IF variant = 2 /\ d \in 3..7 THEN 4
  ELSE IF variant # 1 THEN 3
  ELSE 0

\* C12: CASE executes exactly one block: that of the first branch, in
\* declaration order, with a selector matching the discriminant (a value
\* selector by equality, a range selector a..b when a <= d <= b), else the
\* ELSE block when there is one, else nothing; the statement after the CASE
\* runs next.  With 0..5, {6, 8..10} and ELSE: 3 selects the first branch,
\* 9 the second, 7 the ELSE.
C12_CaseFirstMatch ==
  (program.family = "CaseRange" /\ Finished) =>
    /\ status = "returned"
    /\ Val("hits") = BlockFor(program.a, program.b)
    /\ Val("count") = IF BlockFor(program.a, program.b) = 0 THEN 0 ELSE 1
    /\ Val("total") = 1

\* the program of the test has run with 9 and chose the second branch
C12_Witness ==
  /\ program.family = "CaseRange"
  /\ program.a = 9 /\ program.b = 0
  /\ status = "returned"
  /\ Val("hits") = 2
  /\ Val("count") = 1


\* C13: an EXIT or CONTINUE that is executed outside the body of every
\* WHILE/FOR loop, also in an IF or CASE branch at the top level and after a
\* loop has ended, fails the scan with a Runtime failure; no statement
\* after it runs.  (The FOR of variant 3 ends when the cap allows its two
\* iterations; only then is the jump after it executed.)
C13_JumpOutsideLoopFails ==
  (program.family = "Misplaced" /\ Finished /\ (program.b = 3 => maxLoopIterations >= 2)) =>
    /\ status = "failed"
    /\ failure = IF program.a = 0 THEN "EXIT outside loop" ELSE "CONTINUE outside loop"
    /\ Val("hits") = 1
    /\ Val("total") = 0

\* a CONTINUE in the ELSE of a top-level CASE has failed the scan
C13_Witness ==
  /\ program.family = "Misplaced"
  /\ program.a = 1 /\ program.b = 2
  /\ status = "failed"
  /\ failure = "CONTINUE outside loop"


(***************************************************************************)
(* Properties of the start of a scan (ScanSpec).                           *)
(***************************************************************************)
\* C14: a scan of a program one of whose declared variables has no entry in
\* the binding map fails with the missing-binding error before anything
\* runs: no statement is started, memory and symbols are as the scan found
\* them, and no listener was called.
C14_MissingBindingFailsFirst ==
  (program.family = "Unbound" /\ status # "idle") =>
    /\ status = "failed"
    /\ failure = "no binding"
    /\ stack = <<>>
    /\ lastCall.op = "scan"
    /\ lastCall.calls = <<>>
    /\ mem = lastCall.memBefore
    /\ dbValues = lastCall.dbBefore

\* a second scan with a missing binding, on a state an earlier scan changed
C14_Witness ==
  /\ program.family = "Unbound"
  /\ status = "failed"
  /\ callCount = 1
  /\ Val("count") # program.a
  /\ Val("hits") # 0

\* the scan is about to execute its first statement
AtFirstStatement == status = "running" /\ stack = <<BlockFrame(program.statements, FALSE)>>

\* C15: in every scan, the first and the repeated one alike, the first
\* statement finds each variable with an initializer at its initial value,
\* the initializers having run in declaration order (the second one reads
\* the first variable), and a variable without one as the last scan left
\* it; so every scan of the program ends with the same initialized values.
C15_InitializersEveryScan ==
  program.family = "Initial" =>
    /\ AtFirstStatement =>
         /\ Val("count") = program.a
         /\ Val("total") = program.a + program.b
         /\ Val("hits") = callCount * (program.a + program.b)
    /\ status = "returned" =>
         /\ Val("count") = program.a + 1
         /\ Val("hits") = (callCount + 1) * (program.a + program.b)
         /\ Val("total") = program.a + program.b + Val("hits")

\* the second scan starts from the values the first one changed
C15_Witness ==
  /\ program.family = "Initial"
  /\ callCount = 1
  /\ AtFirstStatement
  /\ ToInt(lastCall.dbBefore["count"]) = program.a + 1
  /\ ToInt(lastCall.dbBefore["total"]) # program.a + program.b
  /\ lastCall.calls # <<>>


(***************************************************************************)
(* Properties of assignment coercion (Spec).                               *)
(***************************************************************************)
Destination == program.variables[1].dataType
Assigned_ == Ratio(program.a, program.b)
Stored == ToInt(facadeRead(mem, dbValues, AbsoluteOf(Destination), Destination).value)
Clamped(type, n) ==
  IF n < TypeMin(type) THEN TypeMin(type) ELSE IF n > TypeMax(type) THEN TypeMax(type) ELSE n

InRange(type, n) == TypeMin(type) <= n /\ n <= TypeMax(type)

\* C16 as stated: an assignment to a BYTE, SINT, WORD, INT, DWORD, DINT,
\* DATE or TOD destination stores the value truncated toward zero and then
\* clamped into the range of the type, and the scan goes on.
C16_TruncateAndClamp ==
  (program.family = "Coerce" /\ Finished) =>
    /\ status = "returned"
    /\ Stored = Clamped(Destination, Trunc(Assigned_))
    /\ Val("total") = 1

\* C16: an assignment to a BYTE, SINT, WORD, INT, DWORD, DINT, DATE or TOD
\* destination truncates the value toward zero; a truncated value inside
\* the range of the type is stored and the scan goes on, one outside it
\* fails the scan with the range error and the destination is not written.
C16_TruncateThenRangeCheck ==
  (program.family = "Coerce" /\ Finished) =>
    IF InRange(Destination, Trunc(Assigned_))
    THEN /\ status = "returned"
         /\ Stored = Trunc(Assigned_)
         /\ Val("total") = 1
    ELSE /\ status = "failed"
         /\ failure = "outside allowed range"
         /\ Stored = 0
         /\ Val("hits") = 1
         /\ Val("total") = 0

\* a value past the end of the destination's range was assigned
C16_Witness ==
  /\ program.family = "Coerce"
  /\ Finished
  /\ Trunc(Assigned_) > TypeMax(Destination)
  /\ Val("hits") = 1

\* a negative value with a fractional part was stored
C16_TruncationWitness ==
  /\ program.family = "Coerce"
  /\ status = "returned"
  /\ program.a < 0
  /\ program.b > 1
  /\ Stored = Trunc(Assigned_)


(***************************************************************************)
(* Properties of division (Spec).                                          *)
(***************************************************************************)
Quotient == Val(IF Destination = "LINT" THEN "lintValue" ELSE "intValue")

\* C17: a scan that divides by a divisor holding zero, whatever the numeric
\* types of the operands (64-bit or not), fails with the division-by-zero
\* error: the destination is not written and nothing after the assignment
\* runs.  With any other divisor the scan returns and the destination holds
\* the quotient, truncated toward zero.
C17_DivisionByZeroFails ==
  (program.family = "Divide" /\ Finished) =>
    IF program.b = 0
    THEN /\ status = "failed"
         /\ failure = "Division by zero"
         /\ Quotient = 0
         /\ Val("hits") = 1
         /\ Val("total") = 0
    ELSE /\ status = "returned"
         /\ Quotient = Trunc(Ratio(program.a, program.b))
         /\ Val("total") = 1

\* a 64-bit division by zero has failed the scan
C17_Witness ==
  /\ program.family = "Divide"
  /\ program.b = 0
  /\ program.a # 0
  /\ Destination = "LINT"
  /\ status = "failed"
  /\ Val("hits") = 1


(***************************************************************************)
(* Paths and addresses as text.  A text is the sequence of its characters. *)
(* Array indexes are written in decimal without leading zeros.             *)
(***************************************************************************)
Uppers ==
  <<"A", "B", "C", "D", "E", "F", "G", "H", "I", "J", "K", "L", "M",
    "N", "O", "P", "Q", "R", "S", "T", "U", "V", "W", "X", "Y", "Z">>
Lowers ==
  <<"a", "b", "c", "d", "e", "f", "g", "h", "i", "j", "k", "l", "m",
    "n", "o", "p", "q", "r", "s", "t", "u", "v", "w", "x", "y", "z">>
DigitChars == <<"0", "1", "2", "3", "4", "5", "6", "7", "8", "9">>

Range(seq) == {seq[k] : k \in 1..Len(seq)}
IndexIn(seq, c) == CHOOSE k \in 1..Len(seq) : seq[k] = c

\* toLowerCase / toUpperCase of one character
charToLowerCase(c) == IF c \in Range(Uppers) THEN Lowers[IndexIn(Uppers, c)] ELSE c
charToUpperCase(c) == IF c \in Range(Lowers) THEN Uppers[IndexIn(Lowers, c)] ELSE c
textToLowerCase(text) == [k \in 1..Len(text) |-> charToLowerCase(text[k])]
textToUpperCase(text) == [k \in 1..Len(text) |-> charToUpperCase(text[k])]

IsDigit(c) == c \in Range(DigitChars)
IsLetter(c) == c \in Range(Uppers) \cup Range(Lowers)
IsWhitespace(c) == c = " "

\* the string that a text spells
RECURSIVE Joined(_)
Joined(text) == IF text = <<>> THEN "" ELSE text[1] \o Joined(Tail(text))

\* Number.parseInt of a run of digits
RECURSIVE parseInt(_)
parseInt(digits) ==
  IF digits = <<>> THEN 0
  ELSE 10 * parseInt(SubSeq(digits, 1, Len(digits) - 1))
       + (IndexIn(DigitChars, digits[Len(digits)]) - 1)

\* String.prototype.trim
RECURSIVE trimStart(_)
trimStart(text) ==
  IF text # <<>> /\ IsWhitespace(text[1]) THEN trimStart(Tail(text)) ELSE text
RECURSIVE trimEnd(_)
trimEnd(text) ==
  IF text # <<>> /\ IsWhitespace(text[Len(text)])
  THEN trimEnd(SubSeq(text, 1, Len(text) - 1)) ELSE text
trim(text) == trimEnd(trimStart(text))

\* trimmed.replace(/\s+/g, "").replace(/#/g, "")
IsPathCharacter(c) == ~IsWhitespace(c) /\ c # "#"
Sanitized(trimmed) == SelectSeq(trimmed, IsPathCharacter)

InvalidSymbolPath == "invalid_symbol_path"
TokensOk(tokens) == [ok |-> TRUE, code |-> "", tokens |-> tokens]
TokensFail(message) == [ok |-> FALSE, code |-> InvalidSymbolPath, tokens |-> <<>>]

\* tokenizePath, its loop from character i on
RECURSIVE tokenizeFrom(_, _, _, _, _)
tokenizeFrom(sanitized, i, current, depth, tokens) ==
  IF i > Len(sanitized)
  THEN IF depth # 0 THEN TokensFail("Mismatched brackets in symbol path")
       ELSE IF current = <<>> THEN TokensFail("Symbol path cannot end with a delimiter")
       ELSE TokensOk(Append(tokens, current))
  ELSE IF sanitized[i] = "." /\ depth = 0
  THEN IF current = <<>> THEN TokensFail("Symbol path cannot contain empty segments")
       ELSE tokenizeFrom(sanitized, i + 1, <<>>, depth, Append(tokens, current))
  ELSE IF sanitized[i] = "]" /\ depth - 1 < 0
  THEN TokensFail("Mismatched brackets in symbol path")
  ELSE tokenizeFrom(sanitized, i + 1, Append(current, sanitized[i]),
                    IF sanitized[i] = "[" THEN depth + 1
                    ELSE IF sanitized[i] = "]" THEN depth - 1 ELSE depth,
                    tokens)

tokenizePath(path) ==
  IF trim(path) = <<>> THEN TokensFail("Symbol path must be non-empty")
  ELSE tokenizeFrom(Sanitized(trim(path)), 1, <<>>, 0, <<>>)

\* /^([^[]*)(.*)$/ : the head of a segment ends before its first bracket
HeadLength(token) ==
  IF "[" \in Range(token) THEN (CHOOSE k \in 1..Len(token) :
                                  token[k] = "[" /\ \A j \in 1..(k - 1) : token[j] # "[") - 1
  ELSE Len(token)

\* the indexes that the bracketed tail of a segment spells: [2] is <<2>>,
\* [-1] is <<-1>>, [1][0] is <<1, 0>>
RECURSIVE IndexesOf(_, _, _)
IndexesOf(tail, i, digits) ==
  IF i > Len(tail) THEN <<>>
  ELSE IF tail[i] = "]"
  THEN <<IF digits # <<>> /\ digits[1] = "-" THEN 0 - parseInt(Tail(digits))
         ELSE parseInt(digits)>> \o IndexesOf(tail, i + 1, <<>>)
  ELSE IF tail[i] = "[" THEN IndexesOf(tail, i + 1, <<>>)
  ELSE IndexesOf(tail, i + 1, Append(digits, tail[i]))

\* a token of tokenizePath as the name and the indexes written after it
Segment(token) ==
  [name |-> Joined(SubSeq(token, 1, HeadLength(token))),
   sub |-> IndexesOf(SubSeq(token, HeadLength(token) + 1, Len(token)), 1, <<>>)]

\* normalizeSegment on a token: head.toLowerCase() + tail
normalizeToken(token) ==
  [name |-> Joined(textToLowerCase(SubSeq(token, 1, HeadLength(token)))),
   sub |-> IndexesOf(SubSeq(token, HeadLength(token) + 1, Len(token)), 1, <<>>)]

\* normalizeTokens
normalizeTokens(tokens) == [k \in 1..Len(tokens) |-> normalizeToken(tokens[k])]

\* the characters of the identifiers that are looked at character by
\* character
Spelled(name) ==
  CASE name = "Pump" -> <<"P", "u", "m", "p">>
    [] name = "Tank" -> <<"T", "a", "n", "k">>
    [] name = "MW0" -> <<"M", "W", "0">>
    [] name = "DBase" -> <<"D", "B", "a", "s", "e">>
    [] name = "db" -> <<"d", "b">>
    [] name = "DB1" -> <<"D", "B", "1">>
    [] name = "9Pump" -> <<"9", "P", "u", "m", "p">>
    [] name = "count" -> <<"c", "o", "u", "n", "t">>
    [] name = "items" -> <<"i", "t", "e", "m", "s">>
    [] name = "recs" -> <<"r", "e", "c", "s">>
    [] name = "leaves" -> <<"l", "e", "a", "v", "e", "s">>
    [] name = "value" -> <<"v", "a", "l", "u", "e">>
    [] name = "missing" -> <<"m", "i", "s", "s", "i", "n", "g">>

\* validateIdentifier: /^[A-Za-z_][A-Za-z0-9_]*$/ on the trimmed name
IsIdentifier(text) ==
  /\ text # <<>>
  /\ IsLetter(text[1]) \/ text[1] = "_"
  /\ \A k \in 2..Len(text) : IsLetter(text[k]) \/ IsDigit(text[k]) \/ text[k] = "_"

\* /^DB/i
StartsWithDb(text) ==
  Len(text) >= 2 /\ charToUpperCase(text[1]) = "D" /\ charToUpperCase(text[2]) = "B"
\* assertNoNumericDbPrefix: /^DB\d+/i
HasNumericDbPrefix(text) == StartsWithDb(text) /\ Len(text) >= 3 /\ IsDigit(text[3])


(***************************************************************************)
(* OptimizedDbStore: construction from a configuration.  An identifier is  *)
(* a string; a path is the sequence of its dot-separated segments, each a  *)
(* name with the indexes written after it in brackets (none, or one).      *)
(* The store under construction is a record of the class's maps; err names *)
(* the RangeError the constructor threw, "none" while none was thrown.     *)
(* typeStack is the Set that one instance's expansion shares.              *)
(***************************************************************************)
\* String.prototype.toLowerCase on the identifiers of the configurations
toLowerCase(name) ==
  CASE name = "Value" -> "value"
    [] name = "Items" -> "items"
    [] name = "ITEMS" -> "items"
    [] name = "Pump" -> "pump"
    [] name = "Tank" -> "tank"
    [] name = "A" -> "a"
    [] name = "B" -> "b"
    [] name = "C" -> "c"
    [] name = "Leaf" -> "leaf"
    [] name = "MW0" -> "mw0"
    [] name = "DBase" -> "dbase"
    [] name = "DB1" -> "db1"
    [] name = "9Pump" -> "9pump"
    [] OTHER -> name

Seg(name) == [name |-> name, sub |-> <<>>]
Elem(name, index) == [name |-> name, sub |-> <<index>>]

\* normalizeSegment: the head lower-cased, the bracketed tail as it is
normalizeSegment(segment) == [segment EXCEPT !.name = toLowerCase(@)]
\* normalizeCanonicalPath / normalizeTokens
normalizeCanonicalPath(path) == [k \in 1..Len(path) |-> normalizeSegment(path[k])]

\* `${canonicalPath}[${index}]`
ElementPath(canonicalPath, index) ==
  [canonicalPath EXCEPT ![Len(canonicalPath)].sub = Append(@, index)]

\* Map.set
Put(map, key, value) == [k \in (DOMAIN map) \cup {key} |-> IF k = key THEN value ELSE map[k]]
EmptyMap == [k \in {} |-> 0]

\* the field definitions of a configuration
ScalarField(name, dataType) == [kind |-> "scalar", name |-> name, dataType |-> dataType]
StringField(name, stringLength) ==
  [kind |-> "scalar", name |-> name, dataType |-> "STRING", stringLength |-> stringLength]
StructField(name, fields) == [kind |-> "struct", name |-> name, fields |-> fields]
ArrayField(name, length, element) ==
  [kind |-> "array", name |-> name, length |-> length, element |-> element]
FbField(name, type) == [kind |-> "fb", name |-> name, type |-> type]

DuplicateType == "Duplicate FB type definition"
DuplicateInstance == "Duplicate FB instance"
DuplicateField == "Duplicate field"
DuplicateSymbol == "Duplicate symbol path"
DuplicateArray == "Duplicate array declaration"
InvalidLength == "must declare a non-negative integer length"
RecursiveType == "Recursive FB type reference detected"
UnknownType == "Unknown FB type"
InvalidStringLength == "must declare stringLength between 1 and 254"
InvalidIdentifier == "must match /[A-Za-z_][A-Za-z0-9_]*/"
NumericDbPrefix == "cannot start with a numeric DB prefix"

Threw(st, error) == [st EXCEPT !.err = error]

\* registerScalarElement: the descriptor and the default value of one slot
\* validateStringLength passes: an integer from 1 to 254
ValidStringLength(element) == element.stringLength \in 1..254

\* the descriptor's stringLength: undefined (0 here) unless the type is STRING
stringLengthOf(element) == IF element.dataType = "STRING" THEN element.stringLength ELSE 0

registerScalarElement(element, canonicalPath, instancePath, instanceType, st) ==
  IF normalizeCanonicalPath(canonicalPath) \in DOMAIN st.descriptors
  THEN Threw(st, DuplicateSymbol)
  ELSE IF element.dataType = "STRING" /\ ~ValidStringLength(element)
  THEN Threw(st, InvalidStringLength)
  ELSE [st EXCEPT
          !.descriptors = Put(@, normalizeCanonicalPath(canonicalPath),
                              [canonicalPath |-> canonicalPath, dataType |-> element.dataType,
                               stringLength |-> stringLengthOf(element),
                               fbInstancePath |-> instancePath, fbType |-> instanceType]),
          !.values = Put(@, normalizeCanonicalPath(canonicalPath),
                         defaultForType(element.dataType))]

\* registerScalar: the name must be new in its scope
registerScalar(field, parentPath, instancePath, instanceType, scope, st) ==
  IF toLowerCase(field.name) \in scope THEN Threw(st, DuplicateField)
  ELSE registerScalarElement(field, Append(parentPath, Seg(field.name)),
                             instancePath, instanceType, st)

RECURSIVE expandFields(_, _, _, _, _, _, _)
RECURSIVE registerArray(_, _, _, _, _, _)
RECURSIVE registerElements(_, _, _, _, _, _)
RECURSIVE expandType(_, _, _, _)

\* a registerStruct that does not look at the names already in the scope
registerStructUnscoped(field, parentPath, instancePath, instanceType, scope, st) ==
  expandFields(field.fields, 1, {}, Append(parentPath, Seg(field.name)),
               instancePath, instanceType, st)

\* registerStruct: the fields of the struct are a scope of their own
registerStruct(field, parentPath, instancePath, instanceType, scope, st) ==
  IF toLowerCase(field.name) \in scope THEN Threw(st, DuplicateField)
  ELSE expandFields(field.fields, 1, {}, Append(parentPath, Seg(field.name)),
                    instancePath, instanceType, st)

\* registerArrayFbInstance: resolveType, a new instance entry, its type expanded
registerArrayFbInstance(element, elementPath, st) ==
  IF toLowerCase(element.type) \notin DOMAIN st.typeDefinitions THEN Threw(st, UnknownType)
  ELSE IF normalizeCanonicalPath(elementPath) \in DOMAIN st.instances
  THEN Threw(st, DuplicateInstance)
  ELSE expandType(st.typeDefinitions[toLowerCase(element.type)], elementPath, elementPath,
                  [st EXCEPT !.instances =
                     Put(@, normalizeCanonicalPath(elementPath),
                         [canonicalPath |-> elementPath,
                          typeName |-> st.typeDefinitions[toLowerCase(element.type)].name])])

\* registerNestedInstance
registerNestedInstance(field, parentPath, scope, st) ==
  IF toLowerCase(field.name) \in scope THEN Threw(st, DuplicateField)
  ELSE registerArrayFbInstance(field, Append(parentPath, Seg(field.name)), st)

\* registerArray, the body of its loop for one index
registerElement(element, elementPath, instancePath, instanceType, st) ==
  CASE element.kind = "scalar" ->
         registerScalarElement(element, elementPath, instancePath, instanceType, st)
    [] element.kind = "struct" ->
         expandFields(element.fields, 1, {}, elementPath, instancePath, instanceType, st)
    [] element.kind = "fb" -> registerArrayFbInstance(element, elementPath, st)
    [] element.kind = "array" ->
         registerArray(element, elementPath, instancePath, instanceType, {}, st)

\* registerArray, its loop from index on
registerElements(field, canonicalPath, index, instancePath, instanceType, st) ==
  IF st.err # "none" \/ index >= field.length THEN st
  ELSE registerElements(field, canonicalPath, index + 1, instancePath, instanceType,
                        registerElement(field.element, ElementPath(canonicalPath, index),
                                        instancePath, instanceType, st))

registerArray(field, parentPath, instancePath, instanceType, scope, st) ==
  IF toLowerCase(field.name) \in scope THEN Threw(st, DuplicateField)
  ELSE IF field.length < 0 THEN Threw(st, InvalidLength)
  ELSE IF normalizeCanonicalPath(Append(parentPath, Seg(field.name))) \in DOMAIN st.arrays
  THEN Threw(st, DuplicateArray)
  ELSE registerElements(field, Append(parentPath, Seg(field.name)), 0, instancePath, instanceType,
                        [st EXCEPT !.arrays =
                           Put(@, normalizeCanonicalPath(Append(parentPath, Seg(field.name))),
                               [canonicalPath |-> Append(parentPath, Seg(field.name)),
                                length |-> field.length])])

\* expandFields, the body of its loop
registerField(field, parentPath, instancePath, instanceType, scope, st) ==
  CASE field.kind = "scalar" ->
         registerScalar(field, parentPath, instancePath, instanceType, scope, st)
    [] field.kind = "struct" ->
         registerStruct(field, parentPath, instancePath, instanceType, scope, st)
    [] field.kind = "array" ->
         registerArray(field, parentPath, instancePath, instanceType, scope, st)
    [] field.kind = "fb" -> registerNestedInstance(field, parentPath, scope, st)

\* expandFields, from field i on; scope holds the lower-cased names of the
\* fields before it
expandFields(fields, i, scope, parentPath, instancePath, instanceType, st) ==
  IF st.err # "none" \/ i > Len(fields) THEN st
  ELSE expandFields(fields, i + 1, scope \cup {toLowerCase(fields[i].name)},
                    parentPath, instancePath, instanceType,
                    registerField(fields[i], parentPath, instancePath, instanceType, scope, st))

\* after expandFields returned: typeStack.delete
TypeExpanded(typeInfo, st) ==
  IF st.err # "none" THEN st
  ELSE [st EXCEPT !.typeStack = @ \ {toLowerCase(typeInfo.name)}]

\* an expandType that leaves the type on the stack
expandTypeKeepsStack(typeInfo, instancePath, parentPath, st) ==
  IF toLowerCase(typeInfo.name) \in st.typeStack THEN Threw(st, RecursiveType)
  ELSE expandFields(typeInfo.definition, 1, {}, parentPath, instancePath, typeInfo.name,
                    [st EXCEPT !.typeStack = @ \cup {toLowerCase(typeInfo.name)}])

\* expandType: a type that is being expanded may not be entered again
expandType(typeInfo, instancePath, parentPath, st) ==
  IF toLowerCase(typeInfo.name) \in st.typeStack THEN Threw(st, RecursiveType)
  ELSE TypeExpanded(typeInfo,
         expandFields(typeInfo.definition, 1, {}, parentPath, instancePath, typeInfo.name,
                      [st EXCEPT !.typeStack = @ \cup {toLowerCase(typeInfo.name)}]))

\* loadTypes, from entry i on
RECURSIVE loadTypes(_, _, _)
loadTypes(types, i, st) ==
  IF st.err # "none" \/ i > Len(types) THEN st
  ELSE IF toLowerCase(types[i].name) \in DOMAIN st.typeDefinitions
  THEN Threw(st, DuplicateType)
  ELSE loadTypes(types, i + 1,
                 [st EXCEPT !.typeDefinitions =
                    Put(@, toLowerCase(types[i].name),
                        [name |-> types[i].name, definition |-> types[i].fields])])

\* loadInstances, the body of its loop: a new Set as typeStack
loadInstance(instance, st) ==
  IF ~IsIdentifier(trim(Spelled(instance.name))) THEN Threw(st, InvalidIdentifier)
  ELSE IF HasNumericDbPrefix(trim(Spelled(instance.name))) THEN Threw(st, NumericDbPrefix)
  ELSE IF toLowerCase(instance.type) \notin DOMAIN st.typeDefinitions THEN Threw(st, UnknownType)
  ELSE IF normalizeCanonicalPath(<<Seg(instance.name)>>) \in DOMAIN st.instances
  THEN Threw(st, DuplicateInstance)
  ELSE expandType(st.typeDefinitions[toLowerCase(instance.type)],
                  <<Seg(instance.name)>>, <<Seg(instance.name)>>,
                  [st EXCEPT !.typeStack = {},
                             !.instances =
                                Put(@, normalizeCanonicalPath(<<Seg(instance.name)>>),
                                    [canonicalPath |-> <<Seg(instance.name)>>,
                                     typeName |->
                                       st.typeDefinitions[toLowerCase(instance.type)].name])])

\* loadInstances, from instance i on
RECURSIVE loadInstances(_, _, _)
loadInstances(instances, i, st) ==
  IF st.err # "none" \/ i > Len(instances) THEN st
  ELSE loadInstances(instances, i + 1, loadInstance(instances[i], st))

\* new OptimizedDbStore(config)
EmptyStore ==
  [built |-> TRUE, err |-> "none", descriptors |-> EmptyMap, values |-> EmptyMap,
   instances |-> EmptyMap, arrays |-> EmptyMap, typeDefinitions |-> EmptyMap, typeStack |-> {}]
OptimizedDbStore(cfg) == loadInstances(cfg.instances, 1, loadTypes(cfg.types, 1, EmptyStore))


(***************************************************************************)
(* OptimizedDbStore: lookups.  A path handed to read or write is the       *)
(* sequence of tokens tokenizePath splits it into.                         *)
(***************************************************************************)
\* the first k tokens, normalized: currentNormalized after token k
NormalizedPrefix(tokens, k) == [j \in 1..k |-> normalizeSegment(tokens[j])]
\* currentNormalized with the brackets of its last segment cut off
ArrayNormalized(tokens, k) == [NormalizedPrefix(tokens, k) EXCEPT ![k].sub = <<>>]

\* extractArrayIndex: the digits of the first bracket pair; <<>> when the
\* segment has no bracket or something else than digits in it
extractArrayIndex(segment) ==
  IF segment.sub # <<>> /\ segment.sub[1] >= 0 THEN <<segment.sub[1]>> ELSE <<>>

Largest(S) == CHOOSE k \in S : \A j \in S : j <= k

\* createError for a path that names no slot
MissingSymbol(code, message, details) ==
  [ok |-> FALSE, code |-> code, message |-> message, details |-> details, value |-> Zero]

\* describeMissingSymbol after its loop: deepestInstance and arrayContext
\* are the last ones the loop found
MissingIn(st, tokens, instancePrefixes, arrayPrefixes) ==
  IF instancePrefixes = {}
  THEN MissingSymbol(UnknownFbInstance, "is not registered", [path |-> tokens])
  ELSE IF /\ arrayPrefixes # {}
          /\ extractArrayIndex(tokens[Largest(arrayPrefixes)]) # <<>>
          /\ \/ extractArrayIndex(tokens[Largest(arrayPrefixes)])[1] < 0
             \/ extractArrayIndex(tokens[Largest(arrayPrefixes)])[1] >=
                  st.arrays[ArrayNormalized(tokens, Largest(arrayPrefixes))].length
  THEN MissingSymbol(UnknownSymbol, "is outside declared range",
         [instance |-> st.instances[NormalizedPrefix(tokens, Largest(instancePrefixes))].canonicalPath,
          fbType |-> st.instances[NormalizedPrefix(tokens, Largest(instancePrefixes))].typeName,
          declaredLength |-> st.arrays[ArrayNormalized(tokens, Largest(arrayPrefixes))].length])
  ELSE MissingSymbol(UnknownSymbol, "does not exist on FB instance",
         [instance |-> st.instances[NormalizedPrefix(tokens, Largest(instancePrefixes))].canonicalPath,
          fbType |-> st.instances[NormalizedPrefix(tokens, Largest(instancePrefixes))].typeName])

describeMissingSymbol(st, tokens) ==
  MissingIn(st, tokens,
            {k \in 1..Len(tokens) : NormalizedPrefix(tokens, k) \in DOMAIN st.instances},
            {k \in 1..Len(tokens) : ArrayNormalized(tokens, k) \in DOMAIN st.arrays})

\* resolveDescriptor and describe on a constructed store: the key of the
\* slot, or the failure
describePath(st, tokens, expectedType) ==
  IF normalizeCanonicalPath(tokens) \notin DOMAIN st.descriptors
  THEN describeMissingSymbol(st, tokens)
  ELSE IF st.descriptors[normalizeCanonicalPath(tokens)].dataType # expectedType
  THEN MissingSymbol(TypeMismatch, "is declared as", [expected |-> expectedType])
  ELSE [ok |-> TRUE, code |-> "", message |-> "", details |-> [path |-> tokens],
        value |-> Zero]

\* OptimizedDbStore.read
readPath(st, tokens, expectedType) ==
  IF ~describePath(st, tokens, expectedType).ok THEN describePath(st, tokens, expectedType)
  ELSE [describePath(st, tokens, expectedType)
          EXCEPT !.value = st.values[normalizeCanonicalPath(tokens)]]

\* OptimizedDbStore.write: the values after the call
writtenValues(st, tokens, expectedType, rawValue) ==
  IF describePath(st, tokens, expectedType).ok /\ coerceScalarValue(expectedType, rawValue).ok
  THEN [st.values EXCEPT ![normalizeCanonicalPath(tokens)] =
          coerceScalarValue(expectedType, rawValue).value]
  ELSE st.values
\* OptimizedDbStore.write: what the call returns
writePath(st, tokens, expectedType, rawValue) ==
  IF ~describePath(st, tokens, expectedType).ok THEN describePath(st, tokens, expectedType)
  ELSE IF ~coerceScalarValue(expectedType, rawValue).ok
  THEN MissingSymbol(coerceScalarValue(expectedType, rawValue).code, "coercion", [path |-> tokens])
  ELSE [describePath(st, tokens, expectedType)
          EXCEPT !.value = coerceScalarValue(expectedType, rawValue).value]


(***************************************************************************)
(* Configurations: FB types whose fields refer to each other, scopes with  *)
(* sibling fields of every kind whose names differ at most in case, and a  *)
(* block with arrays of scalars, structs and FB instances.                 *)
(***************************************************************************)
Type(name, fields) == [name |-> name, fields |-> fields]
Instance(name, type) == [name |-> name, type |-> type]
Leaf == Type("Leaf", <<ScalarField("value", "INT")>>)

\* types A, B, C referring to each other in a given shape; length is the
\* length of the array the reference goes through in shape "array"
References(shape, length) ==
  CASE shape = "self" ->
         <<Type("A", <<ScalarField("count", "INT"), FbField("next", "A")>>), Leaf>>
    [] shape = "pair" ->
         <<Type("A", <<ScalarField("count", "INT"), FbField("b", "B")>>),
           Type("B", <<FbField("a", "A")>>), Leaf>>
    [] shape = "triple" ->
         <<Type("A", <<FbField("b", "B")>>), Type("B", <<FbField("c", "C")>>),
           Type("C", <<ScalarField("count", "INT"), FbField("a", "A")>>), Leaf>>
    [] shape = "array" ->
         <<Type("A", <<ArrayField("items", length, FbField("", "B"))>>),
           Type("B", <<FbField("a", "A")>>), Leaf>>
    [] shape = "struct" ->
         <<Type("A", <<StructField("inner", <<FbField("b", "B")>>)>>),
           Type("B", <<ScalarField("count", "INT"), FbField("a", "A")>>), Leaf>>
    [] shape = "twice" ->
         <<Type("A", <<FbField("b", "B"), FbField("c", "B"),
                       ArrayField("items", length, FbField("", "B"))>>),
           Type("B", <<FbField("leaf", "Leaf")>>), Leaf>>
    [] shape = "after" ->
         <<Type("A", <<ScalarField("value", "INT"), ScalarField("Value", "INT"),
                       FbField("b", "B")>>),
           Type("B", <<FbField("a", "A")>>), Leaf>>

InstanceLists ==
  {<<>>, <<Instance("Pump", "Leaf")>>, <<Instance("Pump", "A")>>,
   <<Instance("Pump", "Leaf"), Instance("Tank", "B")>>}

ReferenceConfigs ==
  {[types |-> References(shape, length), instances |-> instances] :
     shape \in {"self", "pair", "triple", "array", "struct", "twice", "after"},
     length \in {0, 2}, instances \in InstanceLists}

\* a field of the given kind
FieldOf(kind, name) ==
  CASE kind = "scalar" -> ScalarField(name, "INT")
    [] kind = "struct" -> StructField(name, <<ScalarField("count", "INT")>>)
    [] kind = "array" -> ArrayField(name, 1, ScalarField("", "INT"))
    [] kind = "fb" -> FbField(name, "Leaf")

\* type A with the two siblings in its own field list, in the field list
\* of a struct, or in the struct element of an array of the given length
Siblings(first, second, place, length) ==
  CASE place = "type" -> <<Type("A", <<first, second>>), Leaf>>
    [] place = "struct" ->
         <<Type("A", <<ScalarField("count", "INT"), StructField("inner", <<first, second>>)>>),
           Leaf>>
    [] place = "element" ->
         <<Type("A", <<ArrayField("items", length, StructField("", <<first, second>>))>>), Leaf>>

FieldKinds == {"scalar", "struct", "array", "fb"}

SiblingConfigs ==
  {[types |-> Siblings(FieldOf(k1, "value"), FieldOf(k2, name), place, length),
    instances |-> instances] :
     k1 \in FieldKinds, k2 \in FieldKinds, name \in {"Value", "value", "other"},
     place \in {"type", "struct", "element"}, length \in {0, 1},
     instances \in {<<>>, <<Instance("Pump", "A")>>}}

\* a block in the manner of the integration fixture: arrays of scalars, of
\* structs and of FB instances, one of them empty
Block(length) ==
  <<Type("A", <<ScalarField("count", "INT"),
                ArrayField("items", length, ScalarField("", "INT")),
                ArrayField("recs", 2, StructField("", <<ScalarField("value", "INT")>>)),
                ArrayField("leaves", 1, FbField("", "Leaf"))>>),
    Leaf>>
BlockConfigs ==
  {[types |-> Block(length), instances |-> <<Instance("Pump", "A")>>] : length \in {0, 1, 3}}

Configs == ReferenceConfigs \cup SiblingConfigs \cup BlockConfigs

\* the paths read and written
Indexes == {-1, 0, 2, 3, 10}
Paths ==
  {<<Seg("Pump"), Elem("items", i)>> : i \in Indexes}
  \cup {<<Seg("pump"), Elem("ITEMS", 1)>>, <<Seg("Pump"), Seg("items")>>,
        <<Seg("Pump"), Seg("count")>>, <<Seg("Pump"), Seg("missing")>>,
        <<Seg("Tank"), Elem("items", 0)>>,
        <<Seg("Pump"), Elem("recs", 1), Seg("value")>>,
        <<Seg("Pump"), Elem("recs", 2), Seg("value")>>,
        <<Seg("Pump"), Elem("leaves", 0), Seg("value")>>,
        <<Seg("Pump"), Elem("leaves", 1), Seg("value")>>}

(***************************************************************************)
(* StoreSpec: a store is constructed from a configuration and then read    *)
(* and written by path.                                                    *)
(***************************************************************************)
MaxStoreCalls == 2

StoreInit ==
  /\ mem = ZeroedMemory
  /\ dbValues = DefaultValues
  /\ stateListeners = <<>>
  /\ areaListeners = NoListeners
  /\ lastCall = NoCall
  /\ callCount = 0
  /\ program = Infinite
  /\ maxLoopIterations = 0
  /\ stack = <<>>
  /\ control = "none"
  /\ status = "detached"
  /\ failure = "none"
  /\ bodyRuns = 0
  /\ trace = NoTrace
  /\ handles = NoHandles
  /\ config \in Configs
  /\ store = NotBuilt

\* new OptimizedDbStore(config)
Construct ==
  /\ ~store.built
  /\ store' = OptimizedDbStore(config)
  /\ UNCHANGED <<config, facadeVars, interpVars, handles>>

Constructed == store.built /\ store.err = "none"

\* store.read(path, expectedType)
StoreRead(tokens, expectedType) ==
  /\ Constructed
  /\ callCount < MaxStoreCalls
  /\ callCount' = callCount + 1
  /\ \E r \in {readPath(store, tokens, expectedType)} :
       lastCall' = [op |-> "store.read", path |-> tokens, type |-> expectedType,
                    ok |-> r.ok, code |-> r.code, message |-> r.message,
                    details |-> r.details, value |-> r.value, valuesBefore |-> store.values]
  /\ UNCHANGED <<config, store, mem, dbValues, stateListeners, areaListeners, interpVars, handles>>

\* store.write(path, expectedType, rawValue)
StoreWrite(tokens, expectedType, rawValue) ==
  /\ Constructed
  /\ callCount < MaxStoreCalls
  /\ callCount' = callCount + 1
  /\ \E r \in {writePath(store, tokens, expectedType, rawValue)} :
       lastCall' = [op |-> "store.write", path |-> tokens, type |-> expectedType,
                    ok |-> r.ok, code |-> r.code, message |-> r.message,
                    details |-> r.details, value |-> r.value, valuesBefore |-> store.values]
  /\ store' = [store EXCEPT !.values = writtenValues(store, tokens, expectedType, rawValue)]
  /\ UNCHANGED <<config, mem, dbValues, stateListeners, areaListeners, interpVars, handles>>

StoreNext ==
  \/ Construct
  \/ \E tokens \in Paths, expectedType \in {"INT", "BOOL"} : StoreRead(tokens, expectedType)
  \/ \E tokens \in Paths : StoreWrite(tokens, "INT", FromInt(7))

StoreSpec == StoreInit /\ [][StoreNext]_vars


(***************************************************************************)
(* Properties of store construction and of array paths (StoreSpec).        *)
(***************************************************************************)
\* the FB types a field refers to; when live, only through arrays that
\* have an element
RECURSIVE RefsOfField(_, _)
RefsOfField(field, live) ==
  CASE field.kind = "scalar" -> {}
    [] field.kind = "fb" -> {toLowerCase(field.type)}
    [] field.kind = "struct" ->
         UNION {RefsOfField(field.fields[k], live) : k \in 1..Len(field.fields)}
    [] field.kind = "array" ->
         IF live /\ field.length <= 0 THEN {} ELSE RefsOfField(field.element, live)
RefsOfFields(fields, live) == UNION {RefsOfField(fields[k], live) : k \in 1..Len(fields)}

TypeNames(cfg) == {toLowerCase(cfg.types[k].name) : k \in 1..Len(cfg.types)}
FieldsOf(cfg, type) ==
  cfg.types[CHOOSE k \in 1..Len(cfg.types) : toLowerCase(cfg.types[k].name) = type].fields

\* the types referred to by the types of S, and those reached from them in
\* up to n steps
RefsOfTypes(cfg, S, live) ==
  UNION {RefsOfFields(FieldsOf(cfg, type), live) : type \in S \cap TypeNames(cfg)}
RECURSIVE ReachedFrom(_, _, _, _)
ReachedFrom(cfg, S, live, n) ==
  IF n = 0 THEN {}
  ELSE RefsOfTypes(cfg, S, live) \cup ReachedFrom(cfg, RefsOfTypes(cfg, S, live), live, n - 1)

\* some FB type refers to itself, directly or through other types
Cyclic(cfg) ==
  \E type \in TypeNames(cfg) : type \in ReachedFrom(cfg, {type}, FALSE, Len(cfg.types))

\* the types that the expansion of the declared instances enters
Expanded(cfg) ==
  {toLowerCase(cfg.instances[k].type) : k \in 1..Len(cfg.instances)}
  \cup ReachedFrom(cfg, {toLowerCase(cfg.instances[k].type) : k \in 1..Len(cfg.instances)},
                   TRUE, Len(cfg.types))

\* the expansion of some instance comes back to a type it is expanding
CycleExpanded(cfg) ==
  \E type \in Expanded(cfg) : type \in ReachedFrom(cfg, {type}, TRUE, Len(cfg.types))

\* the field lists (scopes) under a field list; when live, only those that
\* an expansion of the list goes through
RECURSIVE ScopesOfField(_, _)
ScopesOfField(field, live) ==
  CASE field.kind \in {"scalar", "fb"} -> {}
    [] field.kind = "struct" ->
         {field.fields}
         \cup UNION {ScopesOfField(field.fields[k], live) : k \in 1..Len(field.fields)}
    [] field.kind = "array" ->
         IF live /\ field.length <= 0 THEN {} ELSE ScopesOfField(field.element, live)
ScopesOfFields(fields, live) ==
  {fields} \cup UNION {ScopesOfField(fields[k], live) : k \in 1..Len(fields)}

\* two sibling fields of the list have names that are equal ignoring case
HasDuplicate(fields) ==
  \E j, k \in 1..Len(fields) :
    j < k /\ toLowerCase(fields[j].name) = toLowerCase(fields[k].name)

DuplicateScope(cfg) ==
  \E k \in 1..Len(cfg.types) :
    \E scope \in ScopesOfFields(cfg.types[k].fields, FALSE) : HasDuplicate(scope)
DuplicateExpanded(cfg) ==
  \E type \in Expanded(cfg) \cap TypeNames(cfg) :
    \E scope \in ScopesOfFields(FieldsOf(cfg, type), TRUE) : HasDuplicate(scope)

\* a reference to an FB type that the configuration does not define
UnknownReference(cfg) ==
  \/ \E k \in 1..Len(cfg.instances) : toLowerCase(cfg.instances[k].type) \notin TypeNames(cfg)
  \/ \E k \in 1..Len(cfg.types) : ~(RefsOfFields(cfg.types[k].fields, FALSE) \subseteq TypeNames(cfg))

\* C18 as stated: no store is constructed from a configuration in which an
\* FB type refers to itself directly or through other types; construction
\* fails with the cycle error.
C18_CyclicSchemaNeverConstructs ==
  (store.built /\ Cyclic(config)) => store.err = RecursiveType

\* C18: construction fails when the expansion of a declared instance comes
\* back to a type it is expanding, with the cycle error unless a duplicate
\* field or an unknown type is met first; the cycle error is thrown in no
\* other case, and types that refer to each other but are entered by no
\* instance (or only through an empty array) do not stop construction.
C18_ExpandedCycleFails ==
  store.built =>
    /\ CycleExpanded(config) => store.err # "none"
    /\ (CycleExpanded(config) /\ ~DuplicateExpanded(config) /\ ~UnknownReference(config)) =>
         store.err = RecursiveType
    /\ store.err = RecursiveType => CycleExpanded(config)
    /\ (~CycleExpanded(config) /\ ~DuplicateExpanded(config) /\ ~UnknownReference(config)) =>
         store.err = "none"

\* the second instance's type leads back to itself through two other types
C18_Witness ==
  /\ store.built
  /\ store.err = RecursiveType
  /\ Len(config.instances) = 2
  /\ config.types = References("triple", 0)

\* a store was constructed although two of its types refer to each other
C18_UnusedCycleWitness == Constructed /\ Cyclic(config) /\ Len(config.instances) > 0

\* no two registered paths are equal ignoring case
PathsUnique ==
  \A j, k \in DOMAIN store.descriptors :
    j # k => normalizeCanonicalPath(store.descriptors[j].canonicalPath)
               # normalizeCanonicalPath(store.descriptors[k].canonicalPath)

\* C19 as stated: construction fails whenever a field list of an FB type or
\* of a struct holds two siblings whose names are equal ignoring case,
\* whatever their kinds, and a constructed store has no two paths that are
\* equal ignoring case.
C19_DuplicateSiblingsNeverConstruct ==
  store.built =>
    /\ DuplicateScope(config) => store.err # "none"
    /\ store.err = "none" => PathsUnique

\* C19: construction fails whenever a field list that the expansion of a
\* declared instance goes through holds two siblings whose names are equal
\* ignoring case, whatever their kinds (with the duplicate-field error
\* unless a cycle or an unknown type is met first); a field list of a type
\* that no instance enters, or of the element of an empty array, is not
\* looked at.  A constructed store has no two paths equal ignoring case.
C19_ExpandedDuplicateFails ==
  store.built =>
    /\ DuplicateExpanded(config) => store.err # "none"
    /\ (DuplicateExpanded(config) /\ ~CycleExpanded(config) /\ ~UnknownReference(config)) =>
         store.err = DuplicateField
    /\ store.err = DuplicateField => DuplicateExpanded(config)
    /\ store.err = "none" => PathsUnique

\* a struct and an array that differ in case only, in the field list of a
\* struct of an instantiated type
C19_Witness ==
  /\ store.built
  /\ store.err = DuplicateField
  /\ config.types = Siblings(FieldOf("struct", "value"), FieldOf("array", "Value"), "struct", 0)

\* the array whose element a path names, as the k-th token
NamesElement(k) ==
  /\ k \in 1..Len(lastCall.path)
  /\ lastCall.path[k].sub # <<>>
  /\ ArrayNormalized(lastCall.path, k) \in DOMAIN store.arrays
DeclaredLength(k) == store.arrays[ArrayNormalized(lastCall.path, k)].length
StoreCalled == lastCall.op \in {"store.read", "store.write"}

\* C20: a read or write of an array element whose index is not in
\* [0, declared length) fails, leaves every stored value as it was, and its
\* diagnostic names the declared length of the array.
C20_OutOfRangeNamesLength ==
  StoreCalled =>
    \A k \in 1..Len(lastCall.path) :
      (NamesElement(k) /\ lastCall.path[k].sub[1] \notin 0..(DeclaredLength(k) - 1)) =>
        /\ ~lastCall.ok
        /\ store.values = lastCall.valuesBefore
        /\ "declaredLength" \in DOMAIN lastCall.details
        /\ lastCall.details.declaredLength = DeclaredLength(k)


(***************************************************************************)
(* PlcStateImpl over a constructed symbol store: the typed accessors       *)
(* called with the text of an address or of a symbol path.                 *)
(***************************************************************************)
AllDigits(text) == text # <<>> /\ \A k \in 1..Len(text) : IsDigit(text[k])

\* BIT_PATTERN /^([IQM])(\d+)\.(\d)$/i
MatchesBitText(text) ==
  /\ Len(text) >= 4
  /\ charToUpperCase(text[1]) \in {"I", "Q", "M"}
  /\ AllDigits(SubSeq(text, 2, Len(text) - 2))
  /\ text[Len(text) - 1] = "."
  /\ IsDigit(text[Len(text)])
\* BYTE_PATTERN /^([IQM])(B|W|D)?(\d+)$/i
HasSizeSpecifier(text) ==
  Len(text) >= 3 /\ charToUpperCase(text[2]) \in {"B", "W", "D"}
MatchesByteText(text) ==
  /\ Len(text) >= 2
  /\ charToUpperCase(text[1]) \in {"I", "Q", "M"}
  /\ \/ AllDigits(Tail(text))
     \/ HasSizeSpecifier(text) /\ AllDigits(SubSeq(text, 3, Len(text)))

\* the trimmed text of an address in parsed-apart form
AddressOf(text) ==
  IF text = <<>> THEN [SymbolAddr("", "") EXCEPT !.kind = "empty"]
  ELSE IF StartsWithDb(text) THEN [SymbolAddr("", "") EXCEPT !.kind = "db"]
  ELSE IF MatchesBitText(text)
  THEN BitAddr(charToUpperCase(text[1]), parseInt(SubSeq(text, 2, Len(text) - 2)),
               parseInt(<<text[Len(text)]>>))
  ELSE IF MatchesByteText(text)
  THEN IF AllDigits(Tail(text))
       THEN ByteAddr(charToUpperCase(text[1]), "", parseInt(Tail(text)))
       ELSE ByteAddr(charToUpperCase(text[1]), charToUpperCase(text[2]),
                     parseInt(SubSeq(text, 3, Len(text))))
  ELSE [SymbolAddr("", "") EXCEPT !.kind = "path"]

\* what an accessor hands back: the result, the memory and the store after
\* the call, whether the symbol store was asked, and the change that
\* dispatchSymbolChange reported
Answer(ok, code, value, m, values, asked, changes) ==
  [ok |-> ok, code |-> code, value |-> value, mem |-> m, values |-> values,
   asked |-> asked, changes |-> changes]

\* OptimizedDbStore.read with the text of a path
readSymbolPath(st, path, expectedType) ==
  IF ~tokenizePath(path).ok
  THEN MissingSymbol(InvalidSymbolPath, "Symbol path", [path |-> path])
  ELSE readPath(st, normalizeTokens(tokenizePath(path).tokens), expectedType)

\* PlcStateImpl.readSymbol
readSymbolAt(st, m, path, dataType) ==
  CHOOSE r \in {Answer(result.ok, result.code, result.value, m, st.values, TRUE, <<>>) :
                  result \in {readSymbolPath(st, path, dataType)}} : TRUE

\* dispatchSymbolChange: the diff and the region handed to dispatchChange,
\* once for every listener of the state
symbolChange(sl, descriptor, previous, current) ==
  [k \in 1..Len(sl) |->
     [listener |-> sl[k],
      region |-> [area |-> "DB", instancePath |-> descriptor.fbInstancePath],
      diff |-> <<[path |-> descriptor.canonicalPath, previous |-> previous,
                  current |-> current]>>]]

\* PlcStateImpl.writeSymbol after describe succeeded: key is the
\* descriptor's normalizedPath
SymbolStored(sl, st, m, key, dataType, coerced) ==
  IF ~coerced.ok THEN Answer(FALSE, coerced.code, Zero, m, st.values, TRUE, <<>>)
  ELSE IF valueEquals(st.values[key], coerced.value)
  THEN Answer(TRUE, "", Zero, m, st.values, TRUE, <<>>)
  ELSE Answer(TRUE, "", Zero, m, [st.values EXCEPT ![key] = coerced.value], TRUE,
              symbolChange(sl, st.descriptors[key], st.values[key], coerced.value))

\* PlcStateImpl.writeSymbol: OptimizedDbStore.write, then dispatchSymbolChange
\* when the value changed
writeSymbolAt(sl, st, m, path, dataType, rawValue) ==
  IF ~tokenizePath(path).ok
  THEN Answer(FALSE, InvalidSymbolPath, Zero, m, st.values, TRUE, <<>>)
  ELSE CHOOSE r \in
         {IF ~described.ok
          THEN Answer(FALSE, described.code, Zero, m, st.values, TRUE, <<>>)
          ELSE SymbolStored(sl, st, m, normalizeTokens(tokenizePath(path).tokens), dataType,
                            coerceScalarValue(dataType, rawValue)) :
            described \in {describePath(st, normalizeTokens(tokenizePath(path).tokens),
                                        dataType)}} : TRUE

\* an area accessor's result as an answer
Absolute(r, st) == Answer(r.ok, r.code, r.value, r.mem, st.values, FALSE, <<>>)

\* readWith with the text of an address
readAt(st, m, address, type) ==
  CHOOSE r \in
    {IF ~parser(a, type).ok /\ shouldAttemptSymbolFallback(a, parser(a, type).code)
     THEN readSymbolAt(st, m, address, type)
     ELSE Absolute(facadeRead(m, DefaultValues, a, type), st) :
       a \in {AddressOf(trim(address))}} : TRUE

\* writeBool ... writeTod with the text of an address
writeAt(sl, st, m, address, type, value) ==
  CHOOSE r \in
    {IF FacadeAccepts(type, value) /\ ~parser(a, type).ok
        /\ shouldAttemptSymbolFallback(a, parser(a, type).code)
     THEN writeSymbolAt(sl, st, m, address, type, value)
     ELSE Absolute(facadeWrite(sl, NoListeners, m, DefaultValues, a, type, value), st) :
       a \in {AddressOf(trim(address))}} : TRUE

\* PlcStateImpl.snapshot().dbSymbols: the stored value under each
\* descriptor's canonicalPath
dbSymbols(st) ==
  [path \in {st.descriptors[key].canonicalPath : key \in DOMAIN st.descriptors} |->
     st.values[CHOOSE key \in DOMAIN st.descriptors :
                 st.descriptors[key].canonicalPath = path]]


(***************************************************************************)
(* The texts given to the accessors: the declared paths of an instance in  *)
(* several spellings, paths that name nothing, malformed paths, absolute   *)
(* addresses.                                                              *)
(***************************************************************************)
\* the decimal digits of an array index
Decimal(n) ==
  IF n < 0 THEN <<"-">> \o <<DigitChars[(0 - n) + 1]>>
  ELSE IF n < 10 THEN <<DigitChars[n + 1]>>
  ELSE <<DigitChars[(n \div 10) + 1], DigitChars[(n % 10) + 1]>>

RECURSIVE Bracketed(_)
Bracketed(sub) ==
  IF sub = <<>> THEN <<>> ELSE <<"[">> \o Decimal(sub[1]) \o <<"]">> \o Bracketed(Tail(sub))

\* a path of segments written out, its segments joined by dots
RECURSIVE WrittenPath(_)
WrittenPath(path) ==
  IF path = <<>> THEN <<>>
  ELSE Spelled(path[1].name) \o Bracketed(path[1].sub)
       \o (IF Len(path) > 1 THEN <<".">> \o WrittenPath(Tail(path)) ELSE <<>>)

Styles == {"declared", "upper", "lower", "sigil", "upperSigil", "padded"}

\* a written path in one of the spellings
Styled(text, style) ==
  CASE style = "declared" -> text
    [] style = "upper" -> textToUpperCase(text)
    [] style = "lower" -> textToLowerCase(text)
    [] style = "sigil" -> <<"#">> \o text
    [] style = "upperSigil" -> <<"#">> \o textToUpperCase(text)
    [] style = "padded" -> <<" ", "#">> \o textToLowerCase(text) \o <<" ">>

\* the names an instance is declared with; DB1 and 9Pump are refused by
\* the constructor
InstanceNames == {"Pump", "MW0", "DBase", "db", "DB1", "9Pump"}

SymbolConfigs ==
  {[types |-> Block(3), instances |-> <<Instance(name, "A")>>] : name \in InstanceNames}

\* the paths below an instance of the block: declared scalars and elements,
\* and paths that name nothing
PathsOf(name) ==
  {<<Seg(name), Seg("count")>>, <<Seg(name), Elem("items", 1)>>,
   <<Seg(name), Elem("recs", 1), Seg("value")>>,
   <<Seg(name), Elem("leaves", 0), Seg("value")>>,
   <<Seg(name), Seg("missing")>>, <<Seg(name), Elem("items", 3)>>, <<Seg(name), Seg("items")>>}

\* texts that are no path of an instance
OtherTexts ==
  {<<>>, <<"#">>, <<"M", "W", "0">>, <<"m", "w", "2">>, <<"M", "0", ".", "1">>,
   <<"D", "B", "1", ".", "D", "B", "W", "0">>,
   <<"P", "u", "m", "p", ".", ".", "c", "o", "u", "n", "t">>,
   <<"P", "u", "m", "p", ".", "i", "t", "e", "m", "s", "[", "1">>,
   <<"P", "u", "m", "p", ".">>}


\* a request: the text handed to the accessor and, when the text spells a
\* path of segments, that path
Request(text, path) == [text |-> text, path |-> path]
Requests(name) ==
  {Request(Styled(WrittenPath(path), style), path) :
     path \in PathsOf(name) \cup {<<Seg("Tank"), Seg("count")>>}, style \in Styles}
  \cup {Request(text, <<>>) : text \in OtherTexts}

(***************************************************************************)
(* SymbolSpec: a PLC state is created with a symbol configuration and one  *)
(* state listener, and its accessors are called with texts.                *)
(***************************************************************************)
MaxSymbolCalls == 2

SymbolInit ==
  /\ mem = ZeroedMemory
  /\ dbValues = DefaultValues
  /\ stateListeners = <<"watch">>
  /\ areaListeners = NoListeners
  /\ lastCall = NoCall
  /\ callCount = 0
  /\ program = Infinite
  /\ maxLoopIterations = 0
  /\ stack = <<>>
  /\ control = "none"
  /\ status = "detached"
  /\ failure = "none"
  /\ bodyRuns = 0
  /\ trace = NoTrace
  /\ handles = NoHandles
  /\ config \in SymbolConfigs
  /\ store = NotBuilt

\* readBool ... readTod with a text
SymbolicRead(request, type) ==
  /\ Constructed
  /\ callCount < MaxSymbolCalls
  /\ callCount' = callCount + 1
  /\ \E r \in {readAt(store, mem, request.text, type)} :
       lastCall' = [op |-> "symbolic.read", text |-> request.text, path |-> request.path,
                    type |-> type, ok |-> r.ok, code |-> r.code, value |-> r.value,
                    asked |-> r.asked, changes |-> r.changes,
                    valuesBefore |-> store.values, memBefore |-> mem]
  /\ UNCHANGED <<config, store, mem, dbValues, stateListeners, areaListeners, interpVars, handles>>

\* writeBool ... writeTod with a text
SymbolicWrite(request, type, value) ==
  /\ Constructed
  /\ callCount < MaxSymbolCalls
  /\ callCount' = callCount + 1
  /\ \E r \in {writeAt(stateListeners, store, mem, request.text, type, value)} :
       /\ lastCall' = [op |-> "symbolic.write", text |-> request.text, path |-> request.path,
                       type |-> type, ok |-> r.ok, code |-> r.code, value |-> value,
                       asked |-> r.asked, changes |-> r.changes,
                       valuesBefore |-> store.values, memBefore |-> mem]
       /\ store' = [store EXCEPT !.values = r.values]
       /\ mem' = r.mem
  /\ UNCHANGED <<config, dbValues, stateListeners, areaListeners, interpVars, handles>>

SymbolNext ==
  \/ Construct
  \/ \E request \in Requests(config.instances[1].name), type \in {"INT", "BOOL"} :
       SymbolicRead(request, type)
  \/ \E request \in Requests(config.instances[1].name), value \in {FromInt(0), FromInt(7)} :
       SymbolicWrite(request, "INT", value)

SymbolSpec == SymbolInit /\ [][SymbolNext]_vars


(***************************************************************************)
(* Properties of symbol lookup by text (SymbolSpec).                       *)
(***************************************************************************)
Symbolic == lastCall.op \in {"symbolic.read", "symbolic.write"}

\* the paths that the block declares under an instance, as declared
BlockPaths(name) ==
  {<<Seg(name), Seg("count")>>, <<Seg(name), Elem("leaves", 0), Seg("value")>>}
  \cup {<<Seg(name), Elem("items", i)>> : i \in 0..2}
  \cup {<<Seg(name), Elem("recs", i), Seg("value")>> : i \in 0..1}

\* the slot registered for a declared path
SlotOf(path) ==
  CHOOSE key \in DOMAIN store.descriptors : store.descriptors[key].canonicalPath = path

\* the FB instance a declared path belongs to: the element of leaves is an
\* instance of its own
OwnerOf(path) ==
  IF path[2].name = "leaves" THEN SubSeq(path, 1, 2) ELSE SubSeq(path, 1, 1)

\* the call named a declared path, in whatever spelling, and the symbol
\* store was asked for it
AskedDeclared ==
  /\ Symbolic
  /\ lastCall.asked
  /\ lastCall.path \in BlockPaths(config.instances[1].name)

\* what a write through the slot leaves behind: the value in that slot
\* alone, and one notification for the listener with the declared path
WrittenThrough(key) ==
  /\ lastCall.ok
  /\ store.values = [lastCall.valuesBefore EXCEPT ![key] = lastCall.value]
  /\ IF lastCall.valuesBefore[key] = lastCall.value THEN lastCall.changes = <<>>
     ELSE /\ Len(lastCall.changes) = 1
          /\ lastCall.changes[1].listener = "watch"
          /\ lastCall.changes[1].region = DbRegion(OwnerOf(lastCall.path))
          /\ lastCall.changes[1].diff =
               <<[path |-> lastCall.path, previous |-> lastCall.valuesBefore[key],
                  current |-> lastCall.value]>>

\* C21: a declared path resolves to its slot in every spelling (upper or
\* lower case, with or without a leading #): a read returns what the slot
\* holds, a write stores into that slot and no other, and a call with
\* another type fails with type_mismatch.  The keys of snapshot.dbSymbols,
\* the descriptors and the paths of change notifications are the paths in
\* declaration casing.
C21_LookupIgnoresCaseAndSigil ==
  Constructed =>
    /\ DOMAIN dbSymbols(store) = BlockPaths(config.instances[1].name)
    /\ \A key \in DOMAIN store.descriptors :
         store.descriptors[key].canonicalPath \in BlockPaths(config.instances[1].name)
    /\ AskedDeclared =>
         IF lastCall.type # "INT"
         THEN ~lastCall.ok /\ lastCall.code = TypeMismatch
              /\ store.values = lastCall.valuesBefore
         ELSE IF lastCall.op = "symbolic.read"
         THEN lastCall.ok /\ lastCall.value = lastCall.valuesBefore[SlotOf(lastCall.path)]
         ELSE WrittenThrough(SlotOf(lastCall.path))

\* a write to #PUMP.RECS[1].VALUE changed the slot of Pump.recs[1].value
\* and was reported under the declared path
C21_Witness ==
  /\ AskedDeclared
  /\ lastCall.op = "symbolic.write"
  /\ lastCall.text = Styled(WrittenPath(<<Seg("Pump"), Elem("recs", 1), Seg("value")>>),
                            "upperSigil")
  /\ lastCall.ok
  /\ Len(lastCall.changes) = 1
  /\ lastCall.changes[1].diff[1].path = <<Seg("Pump"), Elem("recs", 1), Seg("value")>>
  /\ store.values[SlotOf(lastCall.path)] = FromInt(7)


(***************************************************************************)
(* Properties of the byte layout of the areas (FacadeSpec).                *)
(***************************************************************************)
\* a write of a type of two or more bytes to an absolute address succeeded
WideWriteDone ==
  /\ lastCall.op = "write"
  /\ lastCall.ok
  /\ lastCall.address.kind = "byte"
  /\ TypeByteLength(lastCall.type) > 1

\* C23: multi-byte values lie big-endian in the I/Q/M areas: after a
\* successful write of a value of w bytes at an address, the byte at the
\* address is the most significant one and the byte at address + w - 1 the
\* least significant one (for a WORD v: v div 256, then v mod 256).
C23_BigEndianLayout ==
  WideWriteDone =>
    \A i \in 1..TypeByteLength(lastCall.type) :
      mem[lastCall.address.area][lastCall.address.byteOffset + i - 1]
        = lastCall.value[TypeByteLength(lastCall.type) - i + 1]


(***************************************************************************)
(* Properties of direct addresses with a type override (Spec).             *)
(***************************************************************************)
\* the w bytes of the flags area at an offset
FlagBytes(offset, w) == readBytes(mem, "M", offset, w)

\* C24: an address that options.addressTypes maps to a type is read and
\* written with that type: with MW2 and MW4 overridden to INT and MD8 to
\* DINT, the scan returns, MW2 := a stores a as an INT, hits := MW4 reads
\* the INT that was stored there, and MD8 := a stores a as a DINT.
C24_OverrideTypeUsed ==
  (program.family = "Direct" /\ Finished) =>
    /\ status = "returned"
    /\ program.b = 0 => FlagBytes(2, 2) = EncodeBytes(FromInt(program.a), 2)
    /\ program.b = 1 => Val("hits") = program.a
    /\ program.b = 2 => FlagBytes(8, 4) = EncodeBytes(FromInt(program.a), 4)


(***************************************************************************)
(* Properties of the reach of the typed accessors (SymbolSpec).            *)
(***************************************************************************)
\* the accessor of the declared type was called with the canonical path of
\* a registered symbol, spelled as snapshot.dbSymbols spells it
CalledCanonical ==
  /\ Constructed
  /\ Symbolic
  /\ lastCall.type = "INT"
  /\ lastCall.path \in DOMAIN dbSymbols(store)
  /\ lastCall.text = WrittenPath(lastCall.path)

\* C29: every key of snapshot.dbSymbols can be read and written through
\* the accessor of its declared type by its canonical path: the read
\* succeeds with the stored value and the write succeeds and stores the
\* value, whatever instance name the constructor accepted.
C29_RegisteredSymbolsReachable ==
  CalledCanonical =>
    /\ lastCall.ok
    /\ IF lastCall.op = "symbolic.read"
       THEN lastCall.value = lastCall.valuesBefore[SlotOf(lastCall.path)]
       ELSE store.values[SlotOf(lastCall.path)] = lastCall.value


(***************************************************************************)
(* Properties of the shape of a snapshot (SymbolSpec).                     *)
(***************************************************************************)
\* PlcStateImpl.snapshot(): the length of an area's byte array
SnapshotLength(m, area) == Cardinality(DOMAIN m[area])

\* every area is the byte array 0 .. size - 1 of its configured size
ConfiguredLengths ==
  \A area \in ConfiguredAreas :
    /\ DOMAIN mem[area] = 0..(AreaSize(area) - 1)
    /\ SnapshotLength(mem, area) = AreaSize(area)

\* a step of a constructed state keeps the keys of snapshot.dbSymbols and
\* the slots behind them
KeysKept ==
  Constructed =>
    /\ DOMAIN dbSymbols(store') = DOMAIN dbSymbols(store)
    /\ DOMAIN store'.values = DOMAIN store.values
    /\ store'.descriptors = store.descriptors

RECURSIVE Flattened(_)
Flattened(entries) ==
  IF entries = <<>> THEN <<>> ELSE entries[1].effects \o Flattened(Tail(entries))

\* the effects of the writes the statements made, in the order made
Chronological == [i \in 1..Len(trace.log) |-> trace.log[i].effect]

\* the number of elements of a sequence that satisfy a test
CountOf(seq, kinds) == Cardinality({i \in 1..Len(seq) : seq[i] \in kinds})
EntryKinds == [i \in 1..Len(trace.entries) |-> trace.entries[i].statement]
WriteKinds == [i \in 1..Len(trace.log) |-> trace.log[i].by]

\* C25: with tracing enabled the returned trace, read entry by entry and
\* effect by effect, is the list of the writes the statements made, in the
\* order they were made, with one entry for each assignment executed and
\* one for each FOR statement executed; with tracing disabled the result
\* carries no trace.
C25_TraceIsChronological ==
  status = "returned" =>
    IF trace.enabled
    THEN /\ "trace" \in DOMAIN ExecutionResult
         /\ Flattened(ExecutionResult.trace) = Chronological
         /\ CountOf(EntryKinds, {"assignment", "assignAddress"}) = CountOf(WriteKinds, {"assignment"})
         /\ CountOf(EntryKinds, {"for"}) = CountOf(WriteKinds, {"for"})
    ELSE "trace" \notin DOMAIN ExecutionResult

\* the trace as the code builds it: the entries are in the order in which
\* their statements ended, each assignment's entry holds its one write and
\* each FOR statement's entry the writes of its iterator
TraceByStatementEnd ==
  status = "returned" =>
    IF trace.enabled
    THEN /\ "trace" \in DOMAIN ExecutionResult
         /\ Len(Flattened(ExecutionResult.trace)) = Len(Chronological)
         /\ \A e \in 1..Len(trace.entries) :
              IF trace.entries[e].statement = "for"
              THEN \A k \in 1..Len(trace.entries[e].effects) :
                     trace.entries[e].effects[k].address = trace.entries[e].effects[1].address
              ELSE Len(trace.entries[e].effects) = 1
         /\ CountOf(EntryKinds, {"assignment", "assignAddress"}) = CountOf(WriteKinds, {"assignment"})
         /\ CountOf(EntryKinds, {"for"}) = CountOf(WriteKinds, {"for"})
    ELSE "trace" \notin DOMAIN ExecutionResult /\ trace.entries = <<>>


(***************************************************************************)
(* Properties of the iterator of a FOR loop (TraceSpec).                   *)
(***************************************************************************)
\* the value a listener is handed when a write of the log changed a symbol
\* of the program's instance
HeardFrom(write, listener, name) ==
  IF \E k \in 1..Len(write.calls) :
       /\ write.calls[k].listener = listener
       /\ write.calls[k].region = regionKey(DbRegion("ProgramState"))
       /\ write.calls[k].diff[1].path = name
  THEN <<ToInt(write.calls[CHOOSE k \in 1..Len(write.calls) :
                             write.calls[k].listener = listener].diff[1].current)>>
  ELSE <<>>

\* the values of a symbol a listener was handed in a scan, in order
RECURSIVE Heard(_, _, _)
Heard(log, listener, name) ==
  IF log = <<>> THEN <<>>
  ELSE HeardFrom(log[1], listener, name) \o Heard(Tail(log), listener, name)

\* the values a FOR loop from a to b by step gives its iterator: a, a + step,
\* ... up to and including the first one past b
RECURSIVE IteratorValues(_, _, _)
IteratorValues(current, b, step) ==
  IF (step > 0 /\ current <= b) \/ (step < 0 /\ current >= b)
  THEN <<current>> \o IteratorValues(current + step, b, step)
  ELSE <<current>>

\* the values among them that are a change: the symbol holds 0 before the
\* scan, and a write of the value it holds is silent
ChangesOf(values) == IF values[1] = 0 THEN Tail(values) ELSE values

\* a traced scan of FOR index := a TO b BY step has returned: both
\* listeners were handed every value of the iterator, in order
HeardInOrder ==
  (program.family = "ForStep" /\ trace.enabled /\ status = "returned") =>
    \A listener \in {"watch", "audit"} :
      Heard(trace.log, listener, "index")
        = ChangesOf(IteratorValues(program.a, program.b, StepOf))

\* what a write of the iterator leaves: the value behind the binding, and
\* when that is a change, one call of each listener with the value, made
\* while the value is in place
IteratorWritten(binding, value) ==
  /\ ReadBinding(mem', dbValues', binding).value = value
  /\ trace.enabled =>
       /\ Len(trace'.log) = Len(trace.log) + 1
       /\ trace'.log[Len(trace'.log)].effect.value = value
       /\ IF dbValues' = dbValues THEN trace'.log[Len(trace'.log)].calls = <<>>
          ELSE /\ Len(trace'.log[Len(trace'.log)].calls) = 2
               /\ \A k \in 1..2 :
                    /\ trace'.log[Len(trace'.log)].calls[k].listener = <<"watch", "audit">>[k]
                    /\ ToInt(trace'.log[Len(trace'.log)].calls[k].diff[1].current) = value.n
                    /\ trace'.log[Len(trace'.log)].calls[k].seesCurrent

\* a step that enters a FOR loop writes the initial value, and a step that
\* ends an iteration without EXIT writes the iterator plus the step
IteratorWrittenThrough ==
  /\ (AtStatement("for") /\ status' = "running") =>
       IteratorWritten(Binding(program, Current.iterator), Evaluate(Current.initial).value)
  /\ (status = "running" /\ Len(stack) > 0 /\ Top.kind = "for"
        /\ control \in {"normal", "continue"} /\ status' = "running") =>
       IteratorWritten(IteratorBinding, RatAdd(Top.current, Top.stepNumeric))

\* C26: a FOR loop writes its iterator through the binding when it is
\* entered and after every iteration that did not EXIT, and each of these
\* writes that changes the value is handed to the listeners of the state
\* and of the iterator's region at once: they see every value of the
\* iterator in order, not only the one the loop ends with.
C26_IteratorObservable == []HeardInOrder /\ [][IteratorWrittenThrough]_vars

\* FOR index := 1 TO 4 has returned and the region's listener was handed
\* 1, 2, 3, 4 and 5
C26_Witness ==
  /\ program.family = "ForStep"
  /\ trace.enabled
  /\ status = "returned"
  /\ Heard(trace.log, "audit", "index") = <<1, 2, 3, 4, 5>>


(***************************************************************************)
(* SubscribeSpec: an embedder subscribes listeners to the state and to the *)
(* flags area, calls the unsubscribe closures it was handed, any number of *)
(* times, and writes a byte of the flags area.  handles.sets are the Set   *)
(* objects onAreaChange created, in the order created; handles.attached    *)
(* gives for a region key the Set that this.areaListeners holds under it   *)
(* (0 when it holds none); handles.issued are the closures handed out.     *)
(***************************************************************************)
MaxSubscribeCalls == 5

Subscribers == {"watch", "audit"}

\* Set.delete
Without(listeners, l) ==
  LET Other(x) == x # l IN SelectSeq(listeners, Other)

\* the closure onStateChange or onAreaChange returns: what it captured
Handle(scope, key, set, l) ==
  [scope |-> scope, key |-> key, set |-> set, listener |-> l, called |-> FALSE]

\* this.areaListeners as the model's areaListeners: the members of the Set
\* held under each key
AttachedListeners(h) ==
  [k \in RegionKeys |-> IF h.attached[k] = 0 THEN <<>> ELSE h.sets[h.attached[k]]]

\* the embedder holds a closure of this listener and scope that it has not
\* called yet
Live(scope, key, l) ==
  \E i \in 1..Len(handles.issued) :
    /\ ~handles.issued[i].called
    /\ handles.issued[i].scope = scope
    /\ handles.issued[i].key = key
    /\ handles.issued[i].listener = l

\* the listener was subscribed in this scope before
Issued(scope, key, l) ==
  \E i \in 1..Len(handles.issued) :
    /\ handles.issued[i].scope = scope
    /\ handles.issued[i].key = key
    /\ handles.issued[i].listener = l

SubscribeInit ==
  /\ mem = ZeroedMemory
  /\ dbValues = DefaultValues
  /\ stateListeners = <<>>
  /\ areaListeners = NoListeners
  /\ lastCall = NoCall
  /\ callCount = 0
  /\ program = Infinite
  /\ maxLoopIterations = 0
  /\ stack = <<>>
  /\ control = "none"
  /\ status = "detached"
  /\ failure = "none"
  /\ bodyRuns = 0
  /\ trace = NoTrace
  /\ handles = NoHandles
  /\ config = NoConfig
  /\ store = NotBuilt

\* onStateChange; the embedder subscribes a listener function to a scope
\* once, so that a closure and its listener stand for one subscription
SubscribeState(l) ==
  /\ callCount < MaxSubscribeCalls
  /\ ~Issued("state", "", l)
  /\ callCount' = callCount + 1
  /\ stateListeners' = AddListener(stateListeners, l)
  /\ handles' = [handles EXCEPT !.issued = Append(@, Handle("state", "", 0, l))]
  /\ lastCall' = [op |-> "subscribe", listener |-> l, scope |-> "state"]
  /\ UNCHANGED <<mem, dbValues, areaListeners, interpVars, storeVars>>

\* onAreaChange once the Set is looked up or created
AddedToSet(key, l, sets, set) ==
  /\ handles' = [sets |-> [sets EXCEPT ![set] = AddListener(@, l)],
                 attached |-> [handles.attached EXCEPT ![key] = set],
                 issued |-> Append(handles.issued, Handle("area", key, set, l))]
  /\ areaListeners' = AttachedListeners(handles')

\* onAreaChange: this.areaListeners.get(key) ?? new Set()
SubscribeArea(region, l) ==
  /\ callCount < MaxSubscribeCalls
  /\ ~Issued("area", regionKey(region), l)
  /\ callCount' = callCount + 1
  /\ IF handles.attached[regionKey(region)] = 0
     THEN AddedToSet(regionKey(region), l, Append(handles.sets, <<>>), Len(handles.sets) + 1)
     ELSE AddedToSet(regionKey(region), l, handles.sets, handles.attached[regionKey(region)])
  /\ lastCall' = [op |-> "subscribe", listener |-> l, scope |-> regionKey(region)]
  /\ UNCHANGED <<mem, dbValues, stateListeners, interpVars, storeVars>>

\* the closure of onAreaChange: listeners.delete(listener), then
\* this.areaListeners.delete(key) if the captured Set is empty
AreaHandleCalled(i, h, members) ==
  /\ handles' = [sets |-> [handles.sets EXCEPT ![h.set] = members],
                 attached |-> IF members = <<>> THEN [handles.attached EXCEPT ![h.key] = 0]
                              ELSE handles.attached,
                 issued |-> [handles.issued EXCEPT ![i].called = TRUE]]
  /\ areaListeners' = AttachedListeners(handles')
  /\ UNCHANGED stateListeners

\* the closure of onStateChange: this.stateListeners.delete(listener)
StateHandleCalled(i, h) ==
  /\ stateListeners' = Without(stateListeners, h.listener)
  /\ handles' = [handles EXCEPT !.issued[i].called = TRUE]
  /\ UNCHANGED areaListeners

\* the embedder calls a closure it was handed, for the first time or again
Unsubscribe(i) ==
  /\ callCount < MaxSubscribeCalls
  /\ callCount' = callCount + 1
  /\ IF handles.issued[i].scope = "state"
     THEN StateHandleCalled(i, handles.issued[i])
     ELSE AreaHandleCalled(i, handles.issued[i],
                           Without(handles.sets[handles.issued[i].set], handles.issued[i].listener))
  /\ lastCall' = [op |-> "unsubscribe", handle |-> i]
  /\ UNCHANGED <<mem, dbValues, interpVars, storeVars>>

\* writeByte("MB0", value)
WriteObserved(value) ==
  /\ callCount < MaxSubscribeCalls
  /\ callCount' = callCount + 1
  /\ \E r \in {facadeWrite(stateListeners, areaListeners, mem, dbValues,
                            ByteAddr("M", "B", 0), "BYTE", value)} :
       /\ mem' = r.mem
       /\ dbValues' = r.db
       /\ lastCall' = [op |-> "write", ok |-> r.ok, calls |-> r.calls, memBefore |-> mem]
  /\ UNCHANGED <<stateListeners, areaListeners, interpVars, handles, storeVars>>

SubscribeNext ==
  \/ \E l \in Subscribers : SubscribeState(l)
  \/ \E l \in Subscribers : SubscribeArea(AreaRegion("M"), l)
  \/ \E i \in 1..Len(handles.issued) : Unsubscribe(i)
  \/ \E value \in {FromInt(1), FromInt(2)} : WriteObserved(value)

SubscribeSpec == SubscribeInit /\ [][SubscribeNext]_vars


(***************************************************************************)
(* Properties of subscriptions (SubscribeSpec).                            *)
(***************************************************************************)
\* the last call was a write that changed the byte
ChangedByte == lastCall.op = "write" /\ lastCall.ok /\ mem # lastCall.memBefore

\* C28: a subscription is live from the subscribe call until its own
\* unsubscribe closure is called: a change of the flags area reaches every
\* listener whose closure has not been called, whatever other closures
\* were called and however often, and reaches no listener whose closure
\* has been called.
C28_LiveUntilOwnHandle ==
  ChangedByte =>
    \A l \in Subscribers :
      /\ CallsTo(l, "state") = IF Live("state", "", l) THEN 1 ELSE 0
      /\ CallsTo(l, "area") = IF Live("area", regionKey(AreaRegion("M")), l) THEN 1 ELSE 0


(***************************************************************************)
(* STRING values.  A JavaScript string is the sequence of its code points  *)
(* (all below 2048 here, so its length is the length of the sequence);     *)
(* TextEncoder and TextDecoder are UTF-8.  In memory a STRING is the byte  *)
(* of its maximum length, the byte of its current length and the payload.  *)
(***************************************************************************)
Smaller(a, b) == IF a < b THEN a ELSE b
Larger(a, b) == IF a > b THEN a ELSE b

ReplacementCharacter == 65533

\* TextEncoder.encode: one byte below U+0080, two bytes below U+0800
RECURSIVE encode(_)
encode(value) ==
  IF value = <<>> THEN <<>>
  ELSE (IF value[1] < 128 THEN <<value[1]>>
        ELSE <<192 + (value[1] \div 64), 128 + (value[1] % 64)>>) \o encode(Tail(value))

\* TextDecoder.decode: a byte that starts no complete sequence becomes
\* U+FFFD
RECURSIVE decode(_)
decode(bytes) ==
  IF bytes = <<>> THEN <<>>
  ELSE IF bytes[1] < 128 THEN <<bytes[1]>> \o decode(Tail(bytes))
  ELSE IF bytes[1] \in 194..223 /\ Len(bytes) >= 2 /\ bytes[2] \in 128..191
  THEN <<(bytes[1] - 192) * 64 + (bytes[2] - 128)>> \o decode(Tail(Tail(bytes)))
  ELSE <<ReplacementCharacter>> \o decode(Tail(bytes))

\* String.prototype.slice(0, n)
slice(value, n) == SubSeq(value, 1, Smaller(Len(value), Larger(n, 0)))

\* PlcStringWriteOptions / PlcStringReadOptions
NoOptions == [hasMaxLength |-> FALSE, maxLength |-> 0, truncate |-> FALSE]
MaxLengthOption(n, truncate) == [hasMaxLength |-> TRUE, maxLength |-> n, truncate |-> truncate]

\* options?.maxLength ?? 254
maxLengthOr254(options) == IF options.hasMaxLength THEN options.maxLength ELSE 254

\* the bytes writeStringInternal stores: after[0] = effectiveMax,
\* after[1] = writeLength, after.fill(0, 2), then the payload
StringImage(effectiveMax, writeLength, encoded, payloadBudget) ==
  [i \in 1..(2 + payloadBudget) |->
     IF i = 1 THEN effectiveMax
     ELSE IF i = 2 THEN writeLength
     ELSE IF i - 2 <= writeLength THEN encoded[i - 2] ELSE 0]

\* writeStringInternal once before and after are known: writeBytes, then
\* dispatchChange when the diff is not empty
StringStored(sl, al, st, m, descriptor, before, after) ==
  CHOOSE r \in
    {Answer(TRUE, "", <<>>, m2, st.values, FALSE,
            IF Len(computeDiffEntries(descriptor.byteOffset, before, after)) > 0
            THEN dispatchChange(sl, al, AreaRegion(descriptor.area),
                                computeDiffEntries(descriptor.byteOffset, before, after),
                                m2, DefaultValues).calls
            ELSE <<>>) :
       m2 \in {writeBytes(m, descriptor.area, descriptor.byteOffset, after)}} : TRUE

\* writeStringInternal once payloadBudget, effectiveMax and the encoded
\* value are known
StringEncoded(sl, al, st, m, descriptor, encoded, options, payloadBudget, effectiveMax) ==
  IF Len(encoded) > effectiveMax /\ ~options.truncate
  THEN Answer(FALSE, OutOfRange, <<>>, m, st.values, FALSE, <<>>)
  ELSE StringStored(sl, al, st, m, descriptor,
                    readBytes(m, descriptor.area, descriptor.byteOffset, 2 + payloadBudget),
                    StringImage(effectiveMax, Smaller(Len(encoded), effectiveMax), encoded,
                                payloadBudget))

\* an effectiveMax that leaves the maximum stored in the header aside
budgetAsMaximum(storedMax, payloadBudget) == payloadBudget

\* declaredMax = before[0] || payloadBudget;
\* effectiveMax = Math.min(declaredMax || payloadBudget, payloadBudget)
effectiveMaxOf(storedMax, payloadBudget) ==
  Smaller(IF storedMax # 0 THEN storedMax ELSE payloadBudget, payloadBudget)

\* payloadBudget = Math.max(Math.min(available - 2, maxAllowed), 0)
payloadBudgetOf(available, options) ==
  Larger(Smaller(available - 2, Smaller(maxLengthOr254(options), 254)), 0)

writeStringInternal(sl, al, st, m, descriptor, value, options) ==
  IF descriptor.bitOffset # 0 THEN Answer(FALSE, AlignmentError, <<>>, m, st.values, FALSE, <<>>)
  ELSE IF descriptor.area \notin ConfiguredAreas
  THEN Answer(FALSE, UninitializedArea, <<>>, m, st.values, FALSE, <<>>)
  ELSE IF byteLength(m, descriptor.area) - descriptor.byteOffset < 2
  THEN Answer(FALSE, OutOfRange, <<>>, m, st.values, FALSE, <<>>)
  ELSE CHOOSE r \in
         {StringEncoded(sl, al, st, m, descriptor, encode(value), options, payloadBudget,
                        effectiveMaxOf(m[descriptor.area][descriptor.byteOffset], payloadBudget)) :
            payloadBudget \in
              {payloadBudgetOf(byteLength(m, descriptor.area) - descriptor.byteOffset,
                               options)}} : TRUE

\* OptimizedDbStore.write of a STRING: coerceScalarValue with the
\* descriptor's stringLength
coerceString(value, stringLength) ==
  IF Len(value) > stringLength THEN Fail(OutOfRange) ELSE Ok(value)

\* writeStringSymbol once the store has described the path
StringSymbolDescribed(sl, st, m, key, value, options, allowed) ==
  IF Len(value) > allowed /\ ~options.truncate
  THEN Answer(FALSE, OutOfRange, <<>>, m, st.values, TRUE, <<>>)
  ELSE SymbolStored(sl, st, m, key, "STRING",
                    coerceString(IF Len(value) > allowed THEN slice(value, allowed) ELSE value,
                                 st.descriptors[key].stringLength))

\* allowed = Math.min(declared, optionMax, 254)
allowedLength(declared, options) ==
  Smaller(Smaller(declared, IF options.hasMaxLength THEN Larger(options.maxLength, 0)
                            ELSE declared), 254)

writeStringSymbol(sl, st, m, path, value, options) ==
  CHOOSE r \in
    {IF ~metadata.ok THEN Answer(FALSE, metadata.code, <<>>, m, st.values, TRUE, <<>>)
     ELSE StringSymbolDescribed(
            sl, st, m, normalizeTokens(tokenizePath(path).tokens), value, options,
            allowedLength(st.descriptors[normalizeTokens(tokenizePath(path).tokens)].stringLength,
                          options)) :
       metadata \in {readSymbolPath(st, path, "STRING")}} : TRUE

\* PlcStateImpl.writeString
writeString(sl, al, st, m, address, value, options) ==
  CHOOSE r \in
    {IF descriptorResult.ok
     THEN writeStringInternal(sl, al, st, m, descriptorResult, value, options)
     ELSE IF shouldAttemptSymbolFallback(AddressOf(trim(address)), descriptorResult.code)
     THEN writeStringSymbol(sl, st, m, address, value, options)
     ELSE Answer(FALSE, descriptorResult.code, <<>>, m, st.values, FALSE, <<>>) :
       descriptorResult \in {parseCore(AddressOf(trim(address)))}} : TRUE

\* readString of a symbol: the stored value, cut to options.maxLength
readStringSymbol(st, m, symbolResult, options) ==
  IF ~symbolResult.ok THEN Answer(FALSE, symbolResult.code, <<>>, m, st.values, TRUE, <<>>)
  ELSE Answer(TRUE, "",
              IF options.hasMaxLength
              THEN slice(symbolResult.value, Smaller(Larger(options.maxLength, 0), 254))
              ELSE symbolResult.value,
              m, st.values, TRUE, <<>>)

\* readString of an address once the header is read: definedMax and
\* declaredLength are its two bytes
StringHeaderRead(st, m, descriptor, definedMax, declaredLength, allowedMax, available) ==
  IF declaredLength
       > Smaller(Smaller(IF definedMax # 0 THEN definedMax ELSE allowedMax, allowedMax),
                 Larger(available - 2, 0))
  THEN Answer(FALSE, OutOfRange, <<>>, m, st.values, FALSE, <<>>)
  ELSE Answer(TRUE, "",
              decode(readBytes(m, descriptor.area, descriptor.byteOffset + 2, declaredLength)),
              m, st.values, FALSE, <<>>)

readStringAt(st, m, descriptor, options) ==
  IF descriptor.bitOffset # 0 THEN Answer(FALSE, AlignmentError, <<>>, m, st.values, FALSE, <<>>)
  ELSE IF descriptor.area \notin ConfiguredAreas
  THEN Answer(FALSE, UninitializedArea, <<>>, m, st.values, FALSE, <<>>)
  ELSE IF byteLength(m, descriptor.area) - descriptor.byteOffset < 2
  THEN Answer(FALSE, OutOfRange, <<>>, m, st.values, FALSE, <<>>)
  ELSE StringHeaderRead(st, m, descriptor, m[descriptor.area][descriptor.byteOffset],
                        m[descriptor.area][descriptor.byteOffset + 1],
                        Smaller(maxLengthOr254(options), 254),
                        byteLength(m, descriptor.area) - descriptor.byteOffset)

\* PlcStateImpl.readString
readString(st, m, address, options) ==
  CHOOSE r \in
    {IF descriptorResult.ok THEN readStringAt(st, m, descriptorResult, options)
     ELSE IF shouldAttemptSymbolFallback(AddressOf(trim(address)), descriptorResult.code)
     THEN readStringSymbol(st, m, readSymbolPath(st, address, "STRING"), options)
     ELSE Answer(FALSE, descriptorResult.code, <<>>, m, st.values, FALSE, <<>>) :
       descriptorResult \in {parseCore(AddressOf(trim(address)))}} : TRUE


(***************************************************************************)
(* StringSpec: a PLC state with one STRING symbol and one state listener;  *)
(* readString and writeString are called with addresses and symbol paths.  *)
(***************************************************************************)
MaxStringCalls == 3

\* one instance Pump whose type declares value : STRING[stringLength]; a
\* stringLength of 0 is refused by the constructor
StringConfigs ==
  {[types |-> <<Type("A", <<StringField("value", stringLength)>>)>>,
    instances |-> <<Instance("Pump", "A")>>] : stringLength \in {0, 3}}

ValuePath == WrittenPath(<<Seg("Pump"), Seg("value")>>)
StringTexts == {<<"M", "0">>, <<"M", "4">>, <<"M", "1", "5">>, ValuePath}

\* "abcd" and "a" followed by U+00E9
StringValues == {<<97, 98, 99, 100>>, <<97, 233>>}
WriteOptions ==
  {NoOptions, MaxLengthOption(2, FALSE), MaxLengthOption(2, TRUE),
   [NoOptions EXCEPT !.truncate = TRUE]}
ReadOptions == {NoOptions, MaxLengthOption(2, FALSE)}

StringInit ==
  /\ mem = ZeroedMemory
  /\ dbValues = DefaultValues
  /\ stateListeners = <<"watch">>
  /\ areaListeners = NoListeners
  /\ lastCall = NoCall
  /\ callCount = 0
  /\ program = Infinite
  /\ maxLoopIterations = 0
  /\ stack = <<>>
  /\ control = "none"
  /\ status = "detached"
  /\ failure = "none"
  /\ bodyRuns = 0
  /\ trace = NoTrace
  /\ handles = NoHandles
  /\ config \in StringConfigs
  /\ store = NotBuilt

\* the call made before this one, without the call before it
Prior(call) == IF call.op = "none" THEN call ELSE [call EXCEPT !.prior = NoCall]

\* state.writeString(text, value, options)
StringWrite(text, value, options) ==
  /\ Constructed
  /\ callCount < MaxStringCalls
  /\ callCount' = callCount + 1
  /\ \E r \in {writeString(stateListeners, areaListeners, store, mem, text, value, options)} :
       /\ lastCall' = [op |-> "string.write", text |-> text, value |-> value,
                       options |-> options, ok |-> r.ok, code |-> r.code,
                       changes |-> r.changes, valuesBefore |-> store.values,
                       memBefore |-> mem, prior |-> Prior(lastCall)]
       /\ store' = [store EXCEPT !.values = r.values]
       /\ mem' = r.mem
  /\ UNCHANGED <<config, dbValues, stateListeners, areaListeners, interpVars, handles>>

\* state.readString(text, options)
StringRead(text, options) ==
  /\ Constructed
  /\ callCount < MaxStringCalls
  /\ callCount' = callCount + 1
  /\ \E r \in {readString(store, mem, text, options)} :
       lastCall' = [op |-> "string.read", text |-> text, value |-> r.value,
                    options |-> options, ok |-> r.ok, code |-> r.code,
                    changes |-> r.changes, valuesBefore |-> store.values,
                    memBefore |-> mem, prior |-> Prior(lastCall)]
  /\ UNCHANGED <<config, store, mem, dbValues, stateListeners, areaListeners, interpVars,
                 handles>>

StringNext ==
  \/ Construct
  \/ \E text \in StringTexts, value \in StringValues, options \in WriteOptions :
       StringWrite(text, value, options)
  \/ \E text \in StringTexts, options \in ReadOptions : StringRead(text, options)

StringSpec == StringInit /\ [][StringNext]_vars


(***************************************************************************)
(* Properties of STRING writes (StringSpec).                               *)
(***************************************************************************)
WroteString == lastCall.op = "string.write"
ReadAfterWrite ==
  /\ lastCall.op = "string.read"
  /\ lastCall.prior.op = "string.write"
  /\ lastCall.prior.text = lastCall.text
  /\ lastCall.prior.ok

\* the place a text names: a byte of a configured area with room for the
\* two header bytes, or the STRING symbol
Located(text) == parseCore(AddressOf(trim(text)))
IsStringAddress(text) ==
  /\ Located(text).ok
  /\ Located(text).bitOffset = 0
  /\ Located(text).area \in ConfiguredAreas
  /\ byteLength(mem, Located(text).area) - Located(text).byteOffset >= 2
IsStringSymbol(text) == text = ValuePath

\* how many characters a write may store: the least of the maximum stored
\* in the header (when it is not 0), the maxLength option and the room
\* after the header; for the symbol, of the declared stringLength and the
\* maxLength option
Least(numbers) == CHOOSE n \in numbers : \A other \in numbers : n <= other
Fits(call) ==
  IF IsStringSymbol(call.text)
  THEN Least({store.descriptors[normalizeTokens(tokenizePath(call.text).tokens)].stringLength}
             \cup (IF call.options.hasMaxLength THEN {call.options.maxLength} ELSE {}))
  ELSE Least({byteLength(mem, Located(call.text).area) - Located(call.text).byteOffset - 2}
             \cup (IF call.options.hasMaxLength THEN {call.options.maxLength} ELSE {})
             \cup (IF call.memBefore[Located(call.text).area][Located(call.text).byteOffset] # 0
                   THEN {call.memBefore[Located(call.text).area][Located(call.text).byteOffset]}
                   ELSE {}))

IsStringPlace(text) == IsStringAddress(text) \/ IsStringSymbol(text)
SingleByte(value) == \A k \in 1..Len(value) : value[k] < 128

\* a write of a value that is too long, without truncate, fails with
\* out_of_range and changes nothing
Refused(call) ==
  (IsStringPlace(call.text) /\ Len(call.value) > Fits(call) /\ ~call.options.truncate)
    => /\ ~call.ok
       /\ call.code = OutOfRange
       /\ mem = call.memBefore
       /\ store.values = call.valuesBefore
       /\ call.changes = <<>>

\* a write with truncate succeeds
Truncating(call) == (IsStringPlace(call.text) /\ call.options.truncate) => call.ok

\* a read that follows a write with truncate to the same place, with no
\* maxLength of its own or with the write's, returns the prefix that fits
ReadsPrefix(read) ==
  (read.prior.options.truncate
     /\ (read.options.hasMaxLength => read.prior.options.hasMaxLength))
    => /\ read.ok
       /\ read.value = slice(read.prior.value, Fits(read.prior))

\* C22 as stated: a STRING write that is too long fails with out_of_range
\* and changes nothing when truncate is not set; with truncate it succeeds
\* and the next read of the same address or symbol returns exactly the
\* prefix of the value that fits
C22_TruncatedPrefixReadBack ==
  /\ WroteString => Refused(lastCall) /\ Truncating(lastCall)
  /\ ReadAfterWrite => ReadsPrefix(lastCall)

\* C22 amended: the same for values of single-byte characters, the
\* documented payload of a STRING
C22_AsciiPrefixReadBack ==
  /\ (WroteString /\ SingleByte(lastCall.value))
       => Refused(lastCall) /\ Truncating(lastCall)
  /\ (ReadAfterWrite /\ SingleByte(lastCall.prior.value)) => ReadsPrefix(lastCall)

\* a value of four characters was written to an address whose header holds
\* the maximum 2, with truncate, and read back as its first two characters
C22_Witness ==
  /\ ReadAfterWrite
  /\ IsStringAddress(lastCall.text)
  /\ lastCall.prior.options.truncate
  /\ ~lastCall.prior.options.hasMaxLength
  /\ lastCall.prior.memBefore[Located(lastCall.text).area][Located(lastCall.text).byteOffset] = 2
  /\ lastCall.prior.value = <<97, 98, 99, 100>>
  /\ lastCall.ok
  /\ lastCall.value = <<97, 98>>

\* C30: a successful writeString to an address leaves every byte behind
\* the string's capacity (header, then as many bytes as the stored maximum
\* length) as it was, whatever options are passed
C30_OnlyWithinCapacity ==
  (WroteString /\ lastCall.ok /\ IsStringAddress(lastCall.text))
    => \A area \in ConfiguredAreas : \A k \in DOMAIN mem[area] :
         (area # Located(lastCall.text).area
            \/ k < Located(lastCall.text).byteOffset
            \/ k >= Located(lastCall.text).byteOffset + 2
                      + mem[area][Located(lastCall.text).byteOffset])
           => mem[area][k] = lastCall.memBefore[area][k]


(***************************************************************************)
(* Frame of a write (FacadeSpec).                                          *)
(***************************************************************************)
WroteOk == Written /\ lastCall.ok
WroteAbsolute == WroteOk /\ lastCall.address.kind # "symbol"
WroteSymbol == WroteOk /\ lastCall.address.kind = "symbol"

\* the bytes [k, k + w) of the written region
InWrittenRange(area, k) ==
  /\ area = lastCall.address.area
  /\ k >= lastCall.address.byteOffset
  /\ k < lastCall.address.byteOffset + TypeByteLength(lastCall.type)

BytesOutsideKept ==
  \A area \in ConfiguredAreas : \A k \in DOMAIN mem[area] :
    ~InWrittenRange(area, k) => mem[area][k] = lastCall.memBefore[area][k]

\* every bit of the addressed byte but the addressed one is as before
OtherBitsKept ==
  \A b \in 0..7 :
    b # lastCall.address.bitOffset =>
      (BitIsSet(mem[lastCall.address.area][lastCall.address.byteOffset], b)
         <=> BitIsSet(lastCall.memBefore[lastCall.address.area][lastCall.address.byteOffset], b))

OtherSymbolsKept ==
  \A n \in SymbolNames : n # lastCall.address.name => dbValues[n] = lastCall.dbBefore[n]

\* C31: a successful typed write of w bytes at offset k changes no byte
\* outside [k, k + w) of its region, no byte of another region and no
\* symbol value; a BOOL write changes at most the addressed bit; a symbol
\* write changes no other symbol and no region byte
C31_WriteFrame ==
  /\ WroteAbsolute => BytesOutsideKept /\ dbValues = lastCall.dbBefore
  /\ (WroteAbsolute /\ lastCall.type = "BOOL") => OtherBitsKept
  /\ WroteSymbol => mem = lastCall.memBefore /\ OtherSymbolsKept

\* a BOOL write changed its bit in a byte that had another bit set
C31_Witness ==
  /\ WroteAbsolute
  /\ lastCall.type = "BOOL"
  /\ mem # lastCall.memBefore
  /\ \E b \in 0..7 :
       /\ b # lastCall.address.bitOffset
       /\ BitIsSet(lastCall.memBefore[lastCall.address.area][lastCall.address.byteOffset], b)


(***************************************************************************)
(* Snapshots and their difference (FacadeSpec).                            *)
(***************************************************************************)
\* BitArea.snapshot(): the bytes of an area, [] for an area that is not
\* configured
AreaSnapshot(m, area) ==
  IF area \in ConfiguredAreas THEN readBytes(m, area, 0, byteLength(m, area)) ELSE <<>>

\* PlcStateImpl.snapshot()
snapshotState(m, db) ==
  [inputs |-> AreaSnapshot(m, "I"), outputs |-> AreaSnapshot(m, "Q"),
   flags |-> AreaSnapshot(m, "M"), dbSymbols |-> db]

\* diffStates; the entries of dbSymbols are kept as a set, the order of the
\* array being the order of the keys
diffStates(previous, next) ==
  [inputs |-> computeDiffEntries(0, previous.inputs, next.inputs),
   outputs |-> computeDiffEntries(0, previous.outputs, next.outputs),
   flags |-> computeDiffEntries(0, previous.flags, next.flags),
   dbSymbols |->
     {[path |-> path, previous |-> previous.dbSymbols[path], current |-> next.dbSymbols[path]] :
        path \in {p \in (DOMAIN previous.dbSymbols) \cup (DOMAIN next.dbSymbols) :
                    previous.dbSymbols[p] # next.dbSymbols[p]}}]

\* the difference of the snapshots taken right before and right after the
\* call made last
CallDiff ==
  diffStates(snapshotState(lastCall.memBefore, lastCall.dbBefore), snapshotState(mem, dbValues))

Entries(diff) == {diff[i] : i \in 1..Len(diff)}

\* a payload (the key of its region and its diff) says what a difference
\* of snapshots says: the list of the region holds the diff, every other
\* list is empty
PayloadIs(region, diff, d) ==
  /\ d.inputs = (IF region = "I" THEN diff ELSE <<>>)
  /\ d.outputs = (IF region = "Q" THEN diff ELSE <<>>)
  /\ d.flags = (IF region = "M" THEN diff ELSE <<>>)
  /\ d.dbSymbols = (IF region \in {"I", "Q", "M"} THEN {} ELSE Entries(diff))
  /\ region \notin {"I", "Q", "M"} => Len(diff) = Cardinality(d.dbSymbols)

\* C32: for every successful facade write that changes memory, the payload
\* handed to each state-wide listener (region and diff entries) equals
\* diffStates of the snapshots taken right before and right after the write
C32_PayloadIsSnapshotDiff ==
  ChangingWrite =>
    \A i \in 1..Len(lastCall.calls) :
      lastCall.calls[i].scope = "state" =>
        /\ lastCall.calls[i].region = regionKey(WrittenRegion)
        /\ PayloadIs(lastCall.calls[i].region, lastCall.calls[i].diff, CallDiff)

\* a write of several bytes at an offset other than 0 changed more than one
\* of them and a state-wide listener was called
C32_Witness ==
  /\ ChangingWrite
  /\ lastCall.address.kind # "symbol"
  /\ lastCall.address.byteOffset > 0
  /\ \E i \in 1..Len(lastCall.calls) :
       lastCall.calls[i].scope = "state" /\ Len(lastCall.calls[i].diff) > 1


(***************************************************************************)
(* A scan that fails (TraceSpec).                                          *)
(***************************************************************************)
\* the payloads the state-wide listener was handed in this scan, in order:
\* by the initializer pass, then by each write of a statement
RECURSIVE CallsOf(_)
CallsOf(log) == IF log = <<>> THEN <<>> ELSE log[1].calls \o CallsOf(Tail(log))
ToState(calls) == SelectSeq(calls, LAMBDA call : call.scope = "state")
Delivered == ToState(lastCall.calls \o CallsOf(trace.log))

\* memory with the entries of one payload put in place
RECURSIVE Replayed(_, _, _)
Replayed(s, region, diff) ==
  IF diff = <<>> THEN s
  ELSE Replayed(IF region \in Areas
                THEN [s EXCEPT !.mem[region][diff[1].offset] = diff[1].current]
                ELSE [s EXCEPT !.db[diff[1].path] = diff[1].current],
                region, Tail(diff))

\* memory with every payload of a list put in place, in order
RECURSIVE ReplayedAll(_, _)
ReplayedAll(s, calls) ==
  IF calls = <<>> THEN s
  ELSE ReplayedAll(Replayed(s, calls[1].region, calls[1].diff), Tail(calls))

\* the memory the scan found, with everything its listener was told since
AsToldSoFar ==
  ReplayedAll([mem |-> lastCall.memBefore, db |-> lastCall.dbBefore], Delivered)

\* the value each logged write stored last is the value behind its address
LastWrittenKept ==
  \A i \in 1..Len(trace.log) :
    (\A j \in (i + 1)..Len(trace.log) : trace.log[j].effect.address # trace.log[i].effect.address)
      => readAddress(mem, dbValues, trace.log[i].effect.address,
                     trace.log[i].effect.dataType).value
           = trace.log[i].effect.value

\* C33: when a scan fails at a statement, every write of the initializer
\* pass and of the statements before it (completed loop iterations too) is
\* in memory and its listeners have been called: nothing is rolled back
C33_NothingRolledBack ==
  (status = "failed" /\ lastCall.op = "scan" /\ trace.enabled) =>
    /\ AsToldSoFar = [mem |-> mem, db |-> dbValues]
    /\ LastWrittenKept

\* the cap ended a scan whose initializer pass and whose loop body had
\* both changed memory
C33_Witness ==
  /\ status = "failed"
  /\ failure = "WHILE loop exceeded"
  /\ lastCall.op = "scan"
  /\ trace.enabled
  /\ ToState(lastCall.calls) # <<>>
  /\ Len(trace.log) > 2
  /\ mem # lastCall.memBefore \/ dbValues # lastCall.dbBefore


(***************************************************************************)
(* A FOR loop whose body assigns to its iterator, end or step (TraceSpec). *)
(***************************************************************************)
\* the number of values from a to b by step: the iterations of
\* FOR index := a TO b BY step
IterationsOf(a, b, step) == Len(IteratorValues(a, b, step)) - 1

\* a scan of such a loop ends having run the body as often as the loop
\* without the assignments does
IterationsAsDeclared ==
  (program.family = "ForMeddle" /\ Finished) =>
    /\ status = "returned"
    /\ bodyRuns = IterationsOf(1, 4, program.a)
    /\ ReadBinding(mem, dbValues, Binding(program, "count")).value
         = Rat(IterationsOf(1, 4, program.a))

\* a running loop keeps the end and the step it was entered with
BoundsKept ==
  \A i \in 1..Len(stack) :
    (i <= Len(stack') /\ stack[i].kind = "for" /\ stack'[i].kind = "for")
      => /\ stack'[i].endNumeric = stack[i].endNumeric
         /\ stack'[i].stepNumeric = stack[i].stepNumeric

\* the end of an iteration writes the loop's own value plus the step,
\* whatever the iterator holds in memory by then
StepsFromOwnValue ==
  (status = "running" /\ Len(stack) > 0 /\ Top.kind = "for"
     /\ control \in {"normal", "continue"} /\ status' = "running")
    => /\ ReadBinding(mem', dbValues', IteratorBinding).value
            = RatAdd(Top.current, Top.stepNumeric)
       /\ stack'[Len(stack)].current = RatAdd(Top.current, Top.stepNumeric)

\* C34: a FOR loop evaluates its end and step once, before the first
\* iteration, and writes its own previous value plus the step to the
\* iterator after each iteration; assignments of the body to the iterator,
\* end or step variables do not change the number of iterations
C34_LoopOwnsItsBounds == []IterationsAsDeclared /\ [][BoundsKept /\ StepsFromOwnValue]_vars

\* a loop by 1 whose body sets the iterator to 0 has returned after four
\* iterations
C34_Witness ==
  /\ program.family = "ForMeddle"
  /\ program.a = 1
  /\ program.b = 2
  /\ status = "returned"
  /\ bodyRuns = 4


(***************************************************************************)
(* RegionSpec: a PLC state whose instance Pump has scalars, a scalar       *)
(* array, an array of structs, an array of FB instances and a nested FB    *)
(* instance; listeners are subscribed to DB regions by instance path and   *)
(* symbols are written.  handles.issued lists the subscriptions made.      *)
(***************************************************************************)
MaxRegionCalls == 3

RegionConfig ==
  [types |-> <<Type("A", <<ScalarField("count", "INT"),
                           ArrayField("items", 2, ScalarField("", "INT")),
                           ArrayField("recs", 2, StructField("", <<ScalarField("value", "INT")>>)),
                           ArrayField("leaves", 1, FbField("", "Leaf")),
                           FbField("Tank", "Leaf")>>),
               Leaf>>,
   instances |-> <<Instance("Pump", "A")>>]

\* the symbols that are written
RegionSymbols ==
  {<<Seg("Pump"), Seg("count")>>, <<Seg("Pump"), Elem("items", 1)>>,
   <<Seg("Pump"), Elem("recs", 1), Seg("value")>>,
   <<Seg("Pump"), Elem("leaves", 0), Seg("value")>>,
   <<Seg("Pump"), Seg("Tank"), Seg("value")>>}

\* the instance paths listeners are subscribed with: the instance, its
\* nested instances, and a struct element, which is no instance
RegionPaths ==
  {Styled(WrittenPath(path), style) :
     path \in {<<Seg("Pump")>>, <<Seg("Pump"), Elem("leaves", 0)>>, <<Seg("Pump"), Seg("Tank")>>,
               <<Seg("Pump"), Elem("recs", 1)>>},
     style \in {"declared", "upper"}}

RegionListeners == {"audit", "probe"}

\* regionKey of { area: "DB", instancePath }
regionKeyExact(instancePath) == <<"D", "B", ":">> \o instancePath
regionKeyOf(instancePath) == <<"D", "B", ":">> \o textToLowerCase(instancePath)

\* this.areaListeners.get(key), no entry being no listener
ScopedTo(al, key) == IF key \in DOMAIN al THEN al[key] ELSE <<>>

\* dispatchChange, its second loop: the listeners of the region's key are
\* handed the diff
dispatchScoped(al, change) ==
  [k \in 1..Len(ScopedTo(al, regionKeyOf(WrittenPath(change.region.instancePath)))) |->
     [listener |-> ScopedTo(al, regionKeyOf(WrittenPath(change.region.instancePath)))[k],
      region |-> change.region, diff |-> change.diff]]

RegionInit ==
  /\ mem = ZeroedMemory
  /\ dbValues = DefaultValues
  /\ stateListeners = <<"watch">>
  /\ areaListeners = EmptyMap
  /\ lastCall = NoCall
  /\ callCount = 0
  /\ program = Infinite
  /\ maxLoopIterations = 0
  /\ stack = <<>>
  /\ control = "none"
  /\ status = "detached"
  /\ failure = "none"
  /\ bodyRuns = 0
  /\ trace = NoTrace
  /\ handles = NoHandles
  /\ config = RegionConfig
  /\ store = NotBuilt

\* onAreaChange({ area: "DB", instancePath }, l)
RegionSubscribe(instancePath, l) ==
  /\ Constructed
  /\ callCount < MaxRegionCalls
  /\ callCount' = callCount + 1
  /\ areaListeners' = Put(areaListeners, regionKeyOf(instancePath),
                          AddListener(ScopedTo(areaListeners, regionKeyOf(instancePath)), l))
  /\ handles' = [handles EXCEPT !.issued = Append(@, [instancePath |-> instancePath,
                                                       listener |-> l])]
  /\ lastCall' = [op |-> "region.subscribe", instancePath |-> instancePath, listener |-> l]
  /\ UNCHANGED <<config, store, mem, dbValues, stateListeners, interpVars>>

\* writeInt with the text of a symbol: writeSymbol, then dispatchChange to
\* the state-wide listeners and to the listeners of the region
RegionWrite(text, value) ==
  /\ Constructed
  /\ callCount < MaxRegionCalls
  /\ callCount' = callCount + 1
  /\ \E r \in {writeAt(stateListeners, store, mem, text, "INT", value)} :
       /\ lastCall' = [op |-> "region.write", text |-> text, ok |-> r.ok, code |-> r.code,
                       state |-> r.changes,
                       scoped |-> IF r.changes = <<>> THEN <<>>
                                  ELSE dispatchScoped(areaListeners, r.changes[1]),
                       valuesBefore |-> store.values]
       /\ store' = [store EXCEPT !.values = r.values]
       /\ mem' = r.mem
  /\ UNCHANGED <<config, dbValues, stateListeners, areaListeners, interpVars, handles>>

RegionNext ==
  \/ Construct
  \/ \E instancePath \in RegionPaths, l \in RegionListeners : RegionSubscribe(instancePath, l)
  \/ \E path \in RegionSymbols, style \in {"declared", "lower"}, value \in {FromInt(7)} :
       RegionWrite(Styled(WrittenPath(path), style), value)

RegionSpec == RegionInit /\ [][RegionNext]_vars

(***************************************************************************)
(* Properties of region listeners (RegionSpec).                            *)
(***************************************************************************)
\* the write made last changed a symbol; Changed is its key
ChangedSymbol == lastCall.op = "region.write" /\ lastCall.ok /\ store.values # lastCall.valuesBefore
Changed == CHOOSE key \in DOMAIN store.values : store.values[key] # lastCall.valuesBefore[key]

\* the FB instance that owns the changed symbol, written out
Owner == WrittenPath(store.descriptors[Changed].fbInstancePath)

EqualIgnoringCase(a, b) == textToLowerCase(a) = textToLowerCase(b)

\* l was subscribed with an instance path that is the owner's
SubscribedToOwner(l) ==
  \E i \in 1..Len(handles.issued) :
    /\ handles.issued[i].listener = l
    /\ EqualIgnoringCase(handles.issued[i].instancePath, Owner)

TimesCalled(calls, l) == Cardinality({k \in 1..Len(calls) : calls[k].listener = l})

\* C35: a listener registered for { area: DB, instancePath: P } is called
\* for exactly the changes of symbols whose owning FB instance path is P
\* ignoring case (members of P's structs and scalar arrays included);
\* changes of symbols of FB instances nested in P go to the listeners of
\* the nested instance only; state-wide listeners are called for all
C35_RegionListenersByOwner ==
  ChangedSymbol =>
    /\ \A l \in RegionListeners :
         TimesCalled(lastCall.scoped, l) = IF SubscribedToOwner(l) THEN 1 ELSE 0
    /\ TimesCalled(lastCall.state, "watch") = 1
    /\ \A k \in 1..Len(lastCall.scoped) :
         lastCall.scoped[k].diff[1].path = store.descriptors[Changed].canonicalPath

\* a symbol of the nested instance Pump.Tank changed while one listener was
\* subscribed to PUMP and another to Pump.Tank: only the second was called
C35_Witness ==
  /\ ChangedSymbol
  /\ Owner = WrittenPath(<<Seg("Pump"), Seg("Tank")>>)
  /\ \E i, j \in 1..Len(handles.issued) :
       /\ handles.issued[i].instancePath = Styled(WrittenPath(<<Seg("Pump")>>), "upper")
       /\ handles.issued[j].instancePath = WrittenPath(<<Seg("Pump"), Seg("Tank")>>)
       /\ handles.issued[i].listener # handles.issued[j].listener
       /\ TimesCalled(lastCall.scoped, handles.issued[i].listener) = 0
       /\ TimesCalled(lastCall.scoped, handles.issued[j].listener) = 1


(***************************************************************************)
(* Domains of stored symbol values (FacadeSpec).                           *)
(***************************************************************************)
\* the domain of a declared type: the booleans, or the integers of the
\* type's width (TIME counted as in range both as signed and as unsigned
\* 32-bit milliseconds)
InDomain(type, value) ==
  CASE type = "BOOL"  -> value \in BOOLEAN
    [] type = "BYTE"  -> FitsUnsigned(value, 1)
    [] type = "SINT"  -> FitsSigned(value, 1)
    [] type = "WORD"  -> FitsUnsigned(value, 2)
    [] type = "INT"   -> FitsSigned(value, 2)
    [] type = "DWORD" -> FitsUnsigned(value, 4)
    [] type = "DINT"  -> FitsSigned(value, 4)
    [] type = "LINT"  -> FitsSigned(value, 8)
    [] type = "TIME"  -> FitsSigned(value, 4) \/ FitsUnsigned(value, 4)
    [] type = "DATE"  -> FitsUnsigned(value, 2)
    [] type = "TOD"   -> FitsUnsigned(value, 4)

\* C36: after any sequence of facade writes every symbol's stored value
\* lies in the domain of its declared type; a LINT symbol holds a value of
\* -2^63 .. 2^63 - 1
C36_SymbolsInDomain ==
  \A n \in SymbolNames : InDomain(SymbolTable[n].dataType, dbValues[n])

\* every symbol but the LINT one stays in its domain
NarrowSymbolsInDomain ==
  \A n \in SymbolNames :
    SymbolTable[n].dataType # "LINT" => InDomain(SymbolTable[n].dataType, dbValues[n])


(***************************************************************************)
(* ExpressionSpec: evaluateExpression applied to a binary expression;      *)
(* lastCall holds the expression and, once evaluated, what the evaluation  *)
(* gave.                                                                   *)
(***************************************************************************)
SignedOperands ==
  {Lit(Rat(n), type) : n \in {-7, 0, 2}, type \in {"SINT", "INT", "DINT", "LINT"}}
UnsignedOperands ==
  {Lit(Rat(n), type) : n \in {0, 2, 7}, type \in {"BYTE", "WORD", "DWORD"}}
FloatOperands ==
  {Lit(Ratio(n, 2), type) : n \in {-7, 0, 3, 5}, type \in {"REAL", "LREAL"}}
NumericOperands == SignedOperands \cup UnsignedOperands \cup FloatOperands

\* operands of AND, OR and XOR: booleans, a number, a comparison, a string,
\* a division by zero and a variable that is not bound
LogicalOperandIndices == 1..7
LogicalOperand(i) ==
  CASE i = 1 -> Lit(TRUE, "BOOL")
    [] i = 2 -> Lit(FALSE, "BOOL")
    [] i = 3 -> Num_(2)
    [] i = 4 -> Comparison("GT", Num_(1), Num_(0))
    [] i = 5 -> Lit(<<"a">>, "STRING")
    [] i = 6 -> Binary("DIVIDE", Num_(1), Num_(0))
    [] i = 7 -> Var("missing")

ArithmeticExpressions ==
  {Binary(operator, left, right) :
     operator \in {"ADD", "SUBTRACT", "MULTIPLY", "DIVIDE"},
     left \in NumericOperands, right \in NumericOperands}
\* the expression that is to be evaluated
Pending(expression) == [op |-> "pending", expression |-> expression]

ExpressionInit ==
  /\ mem = ZeroedMemory
  /\ dbValues = DefaultValues
  /\ stateListeners = <<>>
  /\ areaListeners = NoListeners
  /\ \/ \E expression \in ArithmeticExpressions : lastCall = Pending(expression)
     \/ \E operator \in {"AND", "OR", "XOR"}, i, j \in LogicalOperandIndices :
          lastCall = Pending(Binary(operator, LogicalOperand(i), LogicalOperand(j)))
  /\ callCount = 0
  /\ program = Infinite
  /\ maxLoopIterations = 0
  /\ stack = <<>>
  /\ control = "none"
  /\ status = "detached"
  /\ failure = "none"
  /\ bodyRuns = 0
  /\ trace = NoTrace
  /\ handles = NoHandles
  /\ config = NoConfig
  /\ store = NotBuilt

\* evaluateExpression(expression)
EvaluateOne ==
  /\ lastCall.op = "pending"
  /\ lastCall' = [op |-> "evaluate", expression |-> lastCall.expression,
                  result |-> evaluateExpression(program, mem, dbValues, lastCall.expression)]
  /\ UNCHANGED <<mem, dbValues, stateListeners, areaListeners, callCount, interpVars, storeVars, handles>>

ExpressionNext == EvaluateOne

ExpressionSpec == ExpressionInit /\ [][ExpressionNext]_vars


(***************************************************************************)
(* Properties of binary expressions (ExpressionSpec).                      *)
(***************************************************************************)
Evaluated == lastCall.op = "evaluate"
Operator == lastCall.expression.operator
Left == lastCall.expression.left
Right == lastCall.expression.right
Arithmetic == Evaluated /\ Operator \in {"ADD", "SUBTRACT", "MULTIPLY", "DIVIDE"}
Logical == Evaluated /\ Operator \in {"AND", "OR", "XOR"}

\* the ladder: float, 64-bit integer, 32-bit, 16-bit, 8-bit
Rank(type) ==
  CASE type \in {"REAL", "LREAL"} -> 5
    [] type = "LINT" -> 4
    [] type \in {"DINT", "DWORD"} -> 3
    [] type \in {"INT", "WORD"} -> 2
    [] type \in {"SINT", "BYTE"} -> 1
HigherRank(a, b) == IF Rank(a) >= Rank(b) THEN Rank(a) ELSE Rank(b)

\* C37: the result type of ADD, SUBTRACT and MULTIPLY is the higher-ranked
\* of the two operand types on the ladder float > LINT > 32-bit > 16-bit >
\* 8-bit: a float with a LINT gives a float, a 32-bit or 16-bit operand
\* with an 8-bit one gives the wider type
C37_ResultTypeByLadder ==
  (Arithmetic /\ Operator # "DIVIDE") =>
    /\ lastCall.result.err = "none"
    /\ lastCall.result.dataType \in {Left.valueType, Right.valueType}
    /\ Rank(lastCall.result.dataType) = HigherRank(Left.valueType, Right.valueType)

\* the same for operand pairs without LINT whose signed member, if any, is
\* the wider one
SignedTypes == {"SINT", "INT", "DINT"}
LadderKept ==
  (/\ Arithmetic /\ Operator # "DIVIDE"
   /\ "LINT" \notin {Left.valueType, Right.valueType}
   /\ \A a, b \in {Left.valueType, Right.valueType} :
        (a \in SignedTypes /\ b \notin SignedTypes) => Rank(a) >= Rank(b)) =>
    /\ lastCall.result.err = "none"
    /\ Rank(lastCall.result.dataType) = HigherRank(Left.valueType, Right.valueType)

\* C38: a division with a LINT operand is computed in 64-bit integer
\* arithmetic, the quotient truncated toward zero and of type LINT; a
\* division without a LINT operand gives a float-typed quotient, also for
\* two integer operands
C38_DivisionTypes ==
  (Arithmetic /\ Operator = "DIVIDE") =>
    IF "LINT" \in {Left.valueType, Right.valueType}
    THEN IF Trunc(Right.value) = 0
         THEN lastCall.result.err = "Division by zero"
         ELSE /\ lastCall.result.err = "none"
              /\ lastCall.result.dataType = "LINT"
              /\ lastCall.result.value.d = 1
              /\ Abs(lastCall.result.value.n) * Abs(Trunc(Right.value)) <= Abs(Trunc(Left.value))
              /\ Abs(Trunc(Left.value)) < (Abs(lastCall.result.value.n) + 1) * Abs(Trunc(Right.value))
              /\ lastCall.result.value.n > 0 => (Trunc(Left.value) > 0) = (Trunc(Right.value) > 0)
              /\ lastCall.result.value.n < 0 => (Trunc(Left.value) > 0) # (Trunc(Right.value) > 0)
    ELSE IF Right.value.n = 0
         THEN lastCall.result.err = "Division by zero"
         ELSE /\ lastCall.result.err = "none"
              /\ lastCall.result.dataType \in {"REAL", "LREAL"}
              /\ RatMul(lastCall.result.value, Right.value) = Left.value

\* -7 / 2 in 64-bit arithmetic gave -3
C38_Witness ==
  /\ Arithmetic /\ Operator = "DIVIDE"
  /\ Left = Lit(Rat(-7), "LINT") /\ Right = Lit(Rat(2), "INT")
  /\ lastCall.result = Value(Rat(-3), "LINT")

\* 2 / 2 of two INT operands gave a REAL
DividedIntegers ==
  /\ Arithmetic /\ Operator = "DIVIDE"
  /\ Left = Lit(Rat(2), "INT") /\ Right = Lit(Rat(2), "INT")
  /\ lastCall.result = Value(Rat(1), "REAL")

\* what each operand gives on its own
LeftValue == evaluateExpression(program, mem, dbValues, Left)
RightValue == evaluateExpression(program, mem, dbValues, Right)
Failed(v) == v.err # "none" \/ ~booleanCompatible(v)

\* C39: AND, OR and XOR evaluate both operands with no short-circuiting: a
\* failure of the right operand (an evaluation error such as a division by
\* zero or an unbound variable, or a value that cannot be converted to
\* boolean) fails the evaluation even when the left operand alone
\* determines the result
C39_NoShortCircuit ==
  (Logical /\ ~Failed(LeftValue) /\ Failed(RightValue)) => lastCall.result.err # "none"

\* an error thrown while the right operand is evaluated always surfaces
RightErrorSurfaces ==
  (Logical /\ ~Failed(LeftValue) /\ RightValue.err # "none") =>
    lastCall.result.err = RightValue.err


(***************************************************************************)
(* IR builder: expressions.  An SclAstNode is [type, children] with the    *)
(* literal's value or the identifier's text at the leaves; source ranges   *)
(* are left out.  A build gives the IR expression or the                   *)
(* SclEmulatorBuildError that was thrown.                                  *)
(***************************************************************************)
AstNode(type, children, value, name) ==
  [type |-> type, children |-> children, value |-> value, name |-> name]
AstToken(type) == AstNode(type, <<>>, 0, "")
AstLiteral(n) == AstNode("INTLiteral", <<>>, n, "")
AstConstant(n) == AstNode("constant", <<AstLiteral(n)>>, 0, "")
AstName(name) == AstNode("expressionName", <<>>, 0, name)
AstExpr(children) == AstNode("expr", children, 0, "")

BuildOk(ir) == [ok |-> TRUE, error |-> "", ir |-> ir]
BuildError(message) == [ok |-> FALSE, error |-> message, ir |-> Var("")]

binaryOperatorFor(tokenType) ==
  CASE tokenType = "'+'" -> "ADD"
    [] tokenType = "'-'" -> "SUBTRACT"
    [] tokenType = "'*'" -> "MULTIPLY"
    [] tokenType = "'/'" -> "DIVIDE"
    [] tokenType = "'AND'" -> "AND"
    [] tokenType = "'OR'" -> "OR"
    [] tokenType = "'XOR'" -> "XOR"
    [] OTHER -> ""

comparisonOperatorFor(tokenType) ==
  CASE tokenType = "'='" -> "EQ"
    [] tokenType = "'<>'" -> "NEQ"
    [] tokenType = "'<'" -> "LT"
    [] tokenType = "'<='" -> "LTE"
    [] tokenType = "'>'" -> "GT"
    [] tokenType = "'>='" -> "GTE"
    [] OTHER -> ""

\* findFirst(node, child => child.type === "expr"): the node itself or the
\* first such node below it, in document order; <<>> when there is none
RECURSIVE findFirstExpr(_)
RECURSIVE findFirstExprIn(_, _)
findFirstExprIn(children, i) ==
  IF i > Len(children) THEN <<>>
  ELSE IF findFirstExpr(children[i]) # <<>> THEN findFirstExpr(children[i])
  ELSE findFirstExprIn(children, i + 1)
findFirstExpr(node) ==
  IF node.type = "expr" THEN <<node>> ELSE findFirstExprIn(node.children, 1)

\* node.children.find(child => child.type === "expr" || child.type === "constant")
Collapsed(children) ==
  [k \in 1..Cardinality({i \in 1..Len(children) : children[i].type \in {"expr", "constant"}
                                                  /\ \A j \in 1..(i - 1) :
                                                       children[j].type \notin {"expr", "constant"}}) |->
     children[CHOOSE i \in 1..Len(children) :
                /\ children[i].type \in {"expr", "constant"}
                /\ \A j \in 1..(i - 1) : children[j].type \notin {"expr", "constant"}]]

\* the IR of two built operands under an operator; a build error of the
\* left operand is thrown first
MadeBinary(kind, operator, left, right) ==
  IF ~left.ok THEN left
  ELSE IF ~right.ok THEN right
  ELSE BuildOk([kind |-> kind, operator |-> operator, left |-> left.ir, right |-> right.ir])
\* makeUnary
MadeUnary(operator, operand) ==
  IF ~operand.ok THEN operand ELSE BuildOk(Unary(operator, operand.ir))

\* buildConstant for an INTLiteral
buildConstant(node) ==
  IF Len(node.children) = 0 THEN BuildError("Constant node missing value")
  ELSE BuildOk(Lit(Rat(node.children[1].value), "INT"))

\* buildIdentifier for a name that classifyAddress does not recognise
IdentifierBuilt(node) == BuildOk(Var(node.name))

RECURSIVE buildExpression(_)
RECURSIVE buildExprNode(_)
\* the last steps of buildExprNode: the two-child form, then the collapse
\* to the first expr or constant child
buildExprNodeRest(node) ==
  IF /\ Len(node.children) = 2
     /\ node.children[1].type = "expr"
     /\ binaryOperatorFor(node.children[2].type) # ""
  THEN IF findFirstExpr(node.children[2]) = <<>>
       THEN BuildError("Binary expression missing right operand")
       ELSE MadeBinary("binary", binaryOperatorFor(node.children[2].type),
                       buildExpression(node.children[1]),
                       buildExpression(findFirstExpr(node.children[2])[1]))
  ELSE IF Collapsed(node.children) # <<>>
  THEN buildExpression(Collapsed(node.children)[1])
  ELSE BuildError("Unsupported expression structure")

buildExprNode(node) ==
  IF Len(node.children) = 0 THEN BuildError("Empty expression")
  ELSE IF /\ Len(node.children) = 3
          /\ node.children[1].type = "'('"
          /\ node.children[3].type = "')'"
  THEN buildExpression(node.children[2])
  ELSE IF Len(node.children) = 1 THEN buildExpression(node.children[1])
  ELSE IF node.children[1].type = "'NOT'"
  THEN MadeUnary("NOT", buildExpression(node.children[2]))
  ELSE IF node.children[1].type = "'-'"
  THEN MadeUnary("NEGATE", buildExpression(node.children[2]))
  ELSE IF node.children[1].type = "'+'" THEN buildExpression(node.children[2])
  ELSE IF /\ Len(node.children) = 3
          /\ node.children[1].type = "expr"
          /\ node.children[3].type = "expr"
          /\ comparisonOperatorFor(node.children[2].type) # ""
  THEN MadeBinary("comparison", comparisonOperatorFor(node.children[2].type),
                  buildExpression(node.children[1]), buildExpression(node.children[3]))
  ELSE IF /\ Len(node.children) = 3
          /\ node.children[1].type = "expr"
          /\ node.children[3].type = "expr"
          /\ binaryOperatorFor(node.children[2].type) # ""
  THEN MadeBinary("binary", binaryOperatorFor(node.children[2].type),
                  buildExpression(node.children[1]), buildExpression(node.children[3]))
  ELSE buildExprNodeRest(node)

buildExpression(node) ==
  CASE node.type = "expr" -> buildExprNode(node)
    [] node.type = "constant" -> buildConstant(node)
    [] node.type = "expressionName" -> IdentifierBuilt(node)
    [] OTHER -> BuildError("Unsupported expression node")

(***************************************************************************)
(* BuildSpec: buildExpression applied to an expression node; lastCall      *)
(* holds the node and, once built, what the build gave.                    *)
(***************************************************************************)
\* operands as the parser hands them over: an expr around a name, around a
\* constant, around a parenthesised expr, and a negated name
AstOperands ==
  {AstExpr(<<AstName("index")>>), AstExpr(<<AstConstant(2)>>),
   AstExpr(<<AstToken("'('"), AstExpr(<<AstName("total")>>), AstToken("')'")>>),
   AstExpr(<<AstToken("'-'"), AstExpr(<<AstName("index")>>)>>)}

SupportedTokens ==
  {"'+'", "'-'", "'*'", "'/'", "'AND'", "'OR'", "'XOR'", "'='", "'<>'", "'<'", "'<='", "'>'", "'>='"}
OperatorTokens == SupportedTokens \cup {"'MOD'", "'**'"}

\* operand operator operand
Infix(left, tokenType, right) == AstExpr(<<left, AstToken(tokenType), right>>)

AstNodes ==
  {Infix(left, tokenType, right) :
     left \in AstOperands, tokenType \in OperatorTokens, right \in AstOperands}
  \cup {Infix(Infix(left, tokenType, right), "'='", AstExpr(<<AstConstant(0)>>)) :
          left \in AstOperands, tokenType \in {"'MOD'", "'+'"}, right \in AstOperands}
  \cup {AstExpr(<<AstToken(tokenType), operand>>) :
          tokenType \in {"'NOT'", "'-'", "'+'"}, operand \in AstOperands}
  \cup {AstExpr(<<>>), AstExpr(<<AstToken("'MOD'")>>),
        AstExpr(<<AstToken("'('"), AstToken("')'")>>), AstToken("'MOD'")}

BuildInit ==
  /\ mem = ZeroedMemory
  /\ dbValues = DefaultValues
  /\ stateListeners = <<>>
  /\ areaListeners = NoListeners
  /\ \E node \in AstNodes : lastCall = [op |-> "parsed", node |-> node]
  /\ callCount = 0
  /\ program = Infinite
  /\ maxLoopIterations = 0
  /\ stack = <<>>
  /\ control = "none"
  /\ status = "detached"
  /\ failure = "none"
  /\ bodyRuns = 0
  /\ trace = NoTrace
  /\ handles = NoHandles
  /\ config = NoConfig
  /\ store = NotBuilt

\* IrBuilder.buildExpression(node)
BuildOne ==
  /\ lastCall.op = "parsed"
  /\ lastCall' = [op |-> "build", node |-> lastCall.node, result |-> buildExpression(lastCall.node)]
  /\ UNCHANGED <<mem, dbValues, stateListeners, areaListeners, callCount, interpVars, storeVars, handles>>

BuildNext == BuildOne

BuildSpec == BuildInit /\ [][BuildNext]_vars

(***************************************************************************)
(* Properties of the IR builder (BuildSpec).                               *)
(***************************************************************************)
BuiltInfix ==
  /\ lastCall.op = "build"
  /\ lastCall.node.type = "expr"
  /\ Len(lastCall.node.children) = 3
  /\ lastCall.node.children[1] \in AstOperands
  /\ lastCall.node.children[3] \in AstOperands
InfixToken == lastCall.node.children[2].type

\* the IR holds an operator and both operands of the node
KeepsBoth ==
  /\ lastCall.result.ir.kind \in {"binary", "comparison"}
  /\ lastCall.result.ir.left = buildExpression(lastCall.node.children[1]).ir
  /\ lastCall.result.ir.right = buildExpression(lastCall.node.children[3]).ir

\* C40: an expression node operand-operator-operand whose operator is not
\* one of + - * /, AND, OR, XOR or a comparison (MOD, for one) is rejected
\* with a Build failure: it is never translated into an IR expression that
\* drops the operator or an operand
C40_UnsupportedRejected ==
  BuiltInfix =>
    IF InfixToken \in SupportedTokens THEN lastCall.result.ok /\ KeepsBoth
    ELSE ~lastCall.result.ok

\* the supported operators keep the operator and both operands
SupportedTranslated ==
  (BuiltInfix /\ InfixToken \in SupportedTokens) =>
    /\ lastCall.result.ok
    /\ KeepsBoth
    /\ lastCall.result.ir.operator \in {binaryOperatorFor(InfixToken), comparisonOperatorFor(InfixToken)}

\* index MOD 2 was built as the variable index alone
DroppedModulo ==
  /\ lastCall.op = "build"
  /\ lastCall.node = Infix(AstExpr(<<AstName("index")>>), "'MOD'", AstExpr(<<AstConstant(2)>>))
  /\ lastCall.result = BuildOk(Var("index"))

====
